---------------------------- MODULE Spec2Model ----------------------------
(***************************************************************************)
(* Chromatogram aggregation (ChromatogramForest, ChromatogramMerger,       *)
(* ChromatogramOverlapSmoother), adduct joining (join_mass_shifted) and    *)
(* the composition graph (CompositionGraph, GraphWriter, GraphReader) of   *)
(* glycan_profiling.                                                       *)
(*                                                                         *)
(* Masses are integers in units of 1e-5 Da (1000.0 Da = 100000000), so     *)
(* that the relative tolerance 1e-5 is the exact integer test              *)
(*     |x - m| <= m \div 100000.                                           *)
(* Retention time is the scan id (scan_id_to_rt defaults to the identity). *)
(***************************************************************************)
EXTENDS Integers, Sequences, FiniteSets, TLC

VARIABLES
    chromatograms,   \* ChromatogramForest.chromatograms
    count,           \* ChromatogramForest.count
    forest0,         \* the list the forest was constructed with
    handled,         \* the peaks given to handle_peak so far
    last_peak,       \* the peak of the latest handle_peak call (or NoPeak)
    sm_input,        \* the collection given to ChromatogramOverlapSmoother
    sm_output,       \* ChromatogramOverlapSmoother.chromatograms
    sm_pc,           \* "new" before the smoother ran, "done" after
    graph,           \* the CompositionGraph: nodes, node_map, edges, node edge sets
    network,         \* GraphReader.network
    file_obj,        \* the lines GraphWriter wrote
    graph_pc,        \* "built", "dumped" (written), "loaded" (read back)
    removed,         \* the number of remove_node calls so far
    scored,          \* the number of nodes given a score so far
    last_call,       \* the arguments of the latest remove_node call
    jm_chromatograms, \* the ChromatogramFilter given to join_mass_shifted
    jm_adducts,      \* the adducts given to join_mass_shifted
    jm_result,       \* what join_mass_shifted returned or raised
    jm_pc,           \* "new" before join_mass_shifted ran, "done" after
    pr_solutions,    \* the scored solutions given to prune_bad_adduct_branches
    pr_result,       \* what prune_bad_adduct_branches returned
    pr_pc,            \* "new" before prune_bad_adduct_branches ran, "done" after
    rv_chromatograms, \* the ChromatogramFilter given to the reverse adduct search
    rv_adducts,      \* the adducts given to it
    rv_database,     \* the structures of the database it searches
    rv_result,       \* what the reverse adduct search returned
    rv_pc,            \* "new" before the search ran, "function" or "method" after
    gm_heap,         \* the CompositionGraph objects: the network given to GlycomeModel, self.network, and the clones
    gm_failing,      \* the grid points (threshold, lambda) at which a numpy.linalg call raises
    gm_result,       \* what the sweep returned or that it raised
    gm_pc,            \* "new" before a sweep ran, then the name of the sweep
    bs_n_theoretical, \* BinomialSpectrumMatcher.n_theoretical
    bs_matches,      \* len(self._sanitize_solution_map())
    bs_above,        \* the numbers of matched peaks above each of the four medians
    bs_ratio,        \* precursor_mass / (2 * match_tolerance)
    bs_score,        \* BinomialSpectrumMatcher._score
    bs_pc,            \* "new" before calculate_score ran, "done" after
    md_structures,   \* the masses of SearchableMassCollection.structures, in list order
    md_query,        \* the mass and error_tolerance given to search_mass
    md_result,       \* the positions (from 0) of the structures search_mass returned
    md_pc,            \* "new" before search_mass ran, then the class it ran on
    dp_hit_to_scan,  \* hit_to_scan: the scan ids of each hit
    dp_fed,          \* the number of hits the feeder has put on input_queue
    dp_input_queue,  \* IdentificationProcessDispatcher.input_queue
    dp_output_queue, \* IdentificationProcessDispatcher.output_queue
    dp_done_event,   \* IdentificationProcessDispatcher.done_event
    dp_workers,      \* each worker's position in task, the structure it holds and its _work_complete event
    dp_i,            \* the number of outputs process has taken
    dp_scan_solution_map, \* scan_solution_map: the targets of the matches of each scan id
    dp_pc,           \* the position of process
    dp_stale,         \* the number of timeouts a worker went on from without new work
    mg_chromatograms, \* ChromatogramMerger.chromatograms
    mg_count,        \* ChromatogramMerger.count
    mg_before,       \* the list before the last handle_new_chromatogram
    mg_new,           \* the chromatogram last handled
    sf_array,        \* the array given to binary_search_with_flag
    sf_mass,         \* the mass looked for
    sf_result,       \* the pair (index list, matched) returned
    sf_pc,            \* whether the search has been made
    dj_graph,        \* the graph given to DijkstraPathFinder
    dj_start,        \* DijkstraPathFinder.start
    dj_end,          \* DijkstraPathFinder.end
    dj_limit,        \* DijkstraPathFinder.limit
    dj_result,       \* what search returned
    dj_pc,            \* whether search has been called
    dj_bridged,       \* the graph remove_node left
    mb_chromatograms, \* ChromatogramFilter.chromatograms
    mb_low,          \* the low argument of mass_between
    mb_high,         \* the high argument of mass_between
    mb_result,       \* what mass_between returned or raised
    mb_pc,            \* whether mass_between has been called
    rd_file,         \* the lines of the graph file
    rd_defect,       \* what is wrong with the file
    rd_network,      \* GraphReader.network after the read
    rd_pc,            \* whether the file has been read
    eg_graph,        \* the CompositionGraph
    eg_history,       \* the calls made on it, in order
    ch_handler,      \* the DatabaseScanCacheHandler and what its serializer was given
    ch_accumulated,  \* the scans given to accumulate, in order
    ch_pc,            \* whether commit has been called
    th_handler,      \* the ThreadedDatabaseScanCacheHandler: its bunch in progress and its queue
    th_written,      \* the bunches the worker thread gave to serializer.save
    th_worker,       \* the position of the worker thread
    th_main,         \* the position of the calling thread
    th_calls,        \* the calls made on the handler, in order
    th_complete,      \* the bunches still on the queue when serializer.complete ran
    pd_loader,       \* the bunches the MzMLLoader has still to give
    pd_args,         \* max_scans and end_scan of make_iterator
    pd_picker,       \* the ScanIDYieldingProcess: its position and count
    pd_input,        \* the input queue of scan id bunches
    pd_event,        \* done_event, the no_more_event of the processes
    pd_workers,      \* the ScanTransformingProcesses: position and scans in hand
    pd_output,       \* the output queue
    pd_manager,      \* the ScanOrderManager
    pd_yielded       \* the indices of the scans yielded, in order

forest_vars == <<chromatograms, count, forest0, handled, last_peak>>
smoother_vars == <<sm_input, sm_output, sm_pc>>
graph_vars == <<graph, network, file_obj, graph_pc, removed, scored, last_call>>
join_vars == <<jm_chromatograms, jm_adducts, jm_result, jm_pc>>
prune_vars == <<pr_solutions, pr_result, pr_pc>>
reverse_vars == <<rv_chromatograms, rv_adducts, rv_database, rv_result, rv_pc>>
sweep_vars == <<gm_heap, gm_failing, gm_result, gm_pc>>
binomial_vars == <<bs_n_theoretical, bs_matches, bs_above, bs_ratio, bs_score, bs_pc>>
massdb_vars == <<md_structures, md_query, md_result, md_pc>>
dispatch_vars == <<dp_hit_to_scan, dp_fed, dp_input_queue, dp_output_queue, dp_done_event, dp_workers, dp_i, dp_scan_solution_map, dp_pc, dp_stale>>
merger_vars == <<mg_chromatograms, mg_count, mg_before, mg_new>>
search_vars == <<sf_array, sf_mass, sf_result, sf_pc>>
dijkstra_vars == <<dj_graph, dj_start, dj_end, dj_limit, dj_result, dj_pc, dj_bridged>>
between_vars == <<mb_chromatograms, mb_low, mb_high, mb_result, mb_pc>>
reader_vars == <<rd_file, rd_defect, rd_network, rd_pc>>
edges_vars == <<eg_graph, eg_history>>
cache_vars == <<ch_handler, ch_accumulated, ch_pc>>
threaded_vars == <<th_handler, th_written, th_worker, th_main, th_calls, th_complete>>
piped_vars == <<pd_loader, pd_args, pd_picker, pd_input, pd_event, pd_workers, pd_output, pd_manager, pd_yielded>>
vars == <<forest_vars, smoother_vars, graph_vars, join_vars,
          prune_vars, reverse_vars, sweep_vars, binomial_vars,
          massdb_vars, dispatch_vars, merger_vars, search_vars,
          dijkstra_vars, between_vars, reader_vars, edges_vars,
          cache_vars, threaded_vars, piped_vars>>

-----------------------------------------------------------------------------
(* Bounds *)

MaxPeaks == 3
MaxChromatograms == 3

-----------------------------------------------------------------------------
(* Generic helpers *)

Abs(x) == IF x < 0 THEN -x ELSE x

SetMin(S) == CHOOSE x \in S : \A y \in S : x <= y
SetMax(S) == CHOOSE x \in S : \A y \in S : x >= y

Range(s) == {s[i] : i \in 1..Len(s)}

\* list.insert(i, x) of Python, i a 0-based position in 0..len
ListInsert(s, i, x) == SubSeq(s, 1, i) \o <<x>> \o SubSeq(s, i + 1, Len(s))

\* array[i] of Python: a negative index counts from the end
PyIndex(array, i) == IF i < 0 THEN array[Len(array) + i + 1] ELSE array[i + 1]

\* list(range(lo, hi)) of Python
PyRange(lo, hi) == [k \in 1..(IF hi > lo THEN hi - lo ELSE 0) |-> lo + k - 1]

\* sorted(s, key) of Python, a stable sort: keys[i] is the key of s[i]
StableRank(keys, i) ==
    1 + Cardinality({j \in 1..Len(keys) :
            keys[j] < keys[i] \/ (keys[j] = keys[i] /\ j < i)})

SortedBy(s, keys) ==
    [p \in 1..Len(s) |-> s[CHOOSE i \in 1..Len(s) : StableRank(keys, i) = p]]

-----------------------------------------------------------------------------
(* Chromatogram: composition, nodes (one peak record per observation),     *)
(* the cached neutral_mass and most_abundant_member.                       *)

NoComposition == "None"
Unmodified == "Unmodified"

error_tolerance_den == 100000

\* abs((x - mass) / mass) <= error_tolerance
WithinTolerance(x, mass) == Abs(x - mass) <= mass \div error_tolerance_den

Peak(scan_id, mass, intensity) ==
    [scan_id |-> scan_id, neutral_mass |-> mass, intensity |-> intensity,
     node_type |-> Unmodified]

start_time(c) == SetMin({p.scan_id : p \in c.nodes})
end_time(c) == SetMax({p.scan_id : p \in c.nodes})
RECURSIVE SumIntensity(_)
SumIntensity(nodes) ==
    IF nodes = {} THEN 0
    ELSE LET p == CHOOSE p \in nodes : TRUE
         IN p.intensity + SumIntensity(nodes \ {p})

total_signal(c) == SumIntensity(c.nodes)

\* Chromatogram(composition) followed by insert of its first peak
NewChromatogram(composition, peak) ==
    [composition |-> composition, nodes |-> {peak},
     neutral_mass |-> peak.neutral_mass,
     most_abundant_member |-> peak.intensity,
     used_as_adduct |-> <<>>, adducts |-> <<>>]

\* The neutral mass is that of the most abundant peak; among equally
\* abundant peaks the choice depends on the traversal order of the nodes.
InferredMasses(nodes) ==
    {p.neutral_mass : p \in {q \in nodes :
        \A r \in nodes : r.intensity <= q.intensity}}

-----------------------------------------------------------------------------
(* binary_search_with_flag of chromatogram_tree/grouping.py.  array is a   *)
(* list of chromatograms, positions are Python's (0-based); the result is  *)
(* the pair (index list, matched).                                         *)

\* "Begin Sweep forward": from mid - 1 down, while i > 0 and array[i] is
\* within tolerance; the value of i the loop ends with is low_end
RECURSIVE SweepLow(_, _, _)
SweepLow(array, mass, i) ==
    IF i > 0 /\ WithinTolerance(PyIndex(array, i).neutral_mass, mass)
    THEN SweepLow(array, mass, i - 1)
    ELSE i

\* "Begin Sweep backward": from mid + 1 up, while i < n and array[i] is
\* within tolerance; the value of i the loop ends with is high_end
RECURSIVE SweepHigh(_, _, _)
SweepHigh(array, mass, i) ==
    IF i < Len(array) /\ WithinTolerance(PyIndex(array, i).neutral_mass, mass)
    THEN SweepHigh(array, mass, i + 1)
    ELSE i

RECURSIVE SearchLoop(_, _, _, _)
SearchLoop(array, mass, lo, hi) ==
    IF hi = lo THEN [index |-> <<0>>, matched |-> FALSE]
    ELSE LET mid == (hi + lo) \div 2
             x == PyIndex(array, mid)
             err == x.neutral_mass - mass   \* the sign of (x - mass) / mass
         IN IF WithinTolerance(x.neutral_mass, mass)
            THEN [index |-> PyRange(SweepLow(array, mass, mid - 1),
                                    SweepHigh(array, mass, mid + 1)),
                  matched |-> TRUE]
            ELSE IF hi - lo = 1 THEN [index |-> <<mid>>, matched |-> FALSE]
            ELSE IF err > 0 THEN SearchLoop(array, mass, lo, mid)
            ELSE SearchLoop(array, mass, mid, hi)

binary_search_with_flag(array, mass) == SearchLoop(array, mass, 0, Len(array))

\* find_minimizing_index: the first index of the list with the least
\* abs(chroma.neutral_mass - mass) / mass
RECURSIVE MinimizingLoop(_, _, _, _, _)
MinimizingLoop(array, mass, indices, k, best) ==
    IF k > Len(indices) THEN best.index
    ELSE LET err == Abs(PyIndex(array, indices[k]).neutral_mass - mass)
         IN IF best.error < 0 \/ err < best.error
            THEN MinimizingLoop(array, mass, indices, k + 1,
                                [index |-> indices[k], error |-> err])
            ELSE MinimizingLoop(array, mass, indices, k + 1, best)

\* a find_minimizing_index that takes the first index of the list
find_minimizing_index_first(array, mass, indices) == indices[1]

\* best.error < 0 stands for float('inf')
find_minimizing_index(array, mass, indices) ==
    MinimizingLoop(array, mass, indices, 1, [index |-> -1, error |-> -1])

\* insert_chromatogram (the same code in ChromatogramForest and
\* ChromatogramMerger): the list after the insertion
insert_chromatogram(array, chromatogram, index) ==
    IF index[1] # 0
    THEN \* list.insert takes a position beyond the end as the end
         ListInsert(array,
                    IF index[1] + 1 > Len(array) THEN Len(array)
                    ELSE IF index[1] + 1 < 0 THEN 0 ELSE index[1] + 1,
                    chromatogram)
    ELSE IF Len(array) = 0 THEN ListInsert(array, 0, chromatogram)
    ELSE IF array[1].neutral_mass < chromatogram.neutral_mass
         THEN ListInsert(array, 1, chromatogram)
         ELSE ListInsert(array, 0, chromatogram)

-----------------------------------------------------------------------------
(* ChromatogramForest *)

\* The peaks the deconvolution hands over: masses 1000.0, 1000.00001,
\* 1000.0005, 1000.01 (the edge of the tolerance window of 1000.0),
\* 1000.01001, 1000.02 and 1005.0, each at two intensities.
PeakMasses ==
    {100000000, 100000001, 100000050, 100001000, 100001001, 100002000,
     100500000}

PeakPool ==
    {Peak(1, m, 50) : m \in PeakMasses} \cup {Peak(2, m, 100) : m \in PeakMasses}

NoPeak == Peak(-1, 0, 0)

\* The chromatograms a forest is constructed with (trace.py builds them from
\* the database matches: a peak matching several compositions gives several
\* chromatograms of one neutral mass).
SeedG1 == NewChromatogram("G1", Peak(0, 100000000, 50))
SeedG2 == NewChromatogram("G2", Peak(0, 100000000, 50))
SeedG3 == NewChromatogram("G3", Peak(0, 100500000, 50))

ConstructorInputs ==
    {<<>>, <<SeedG1>>, <<SeedG1, SeedG2>>, <<SeedG3, SeedG1>>}

\* ChromatogramForest.__init__: sorted(chromatograms, key=neutral_mass)
ForestConstruct(input) ==
    SortedBy(input, [i \in 1..Len(input) |-> input[i].neutral_mass])

\* ChromatogramForest.find_insertion_point, with the len(self) == 0 guard
\* of handle_peak
find_insertion_point(array, mass) ==
    IF Len(array) = 0 THEN [index |-> <<0>>, matched |-> FALSE]
    ELSE binary_search_with_flag(array, mass)

\* 1-based position of the chromatogram self.chromatograms[i]
Position(array, i) == IF i < 0 THEN Len(array) + i + 1 ELSE i + 1

\* Chromatogram.insert followed by the retain_most_abundant_member test of
\* handle_peak: the chromatograms the call may leave
Inserted(chroma, peak) ==
    LET nodes == chroma.nodes \cup {peak}
    IN IF peak.intensity < chroma.most_abundant_member
       THEN {[chroma EXCEPT !.nodes = nodes]}
       ELSE {[chroma EXCEPT !.nodes = nodes,
                            !.most_abundant_member = peak.intensity,
                            !.neutral_mass = m] : m \in InferredMasses(nodes)}

\* handle_peak: the lists of chromatograms the call may leave
handle_peak(array, peak) ==
    LET found == find_insertion_point(array, peak.neutral_mass)
    IN IF found.matched
       THEN LET pos == Position(array,
                         find_minimizing_index(array, peak.neutral_mass, found.index))
            IN {[array EXCEPT ![pos] = c] : c \in Inserted(array[pos], peak)}
       ELSE {insert_chromatogram(array, NewChromatogram(NoComposition, peak),
                                 found.index)}

ForestInit ==
    /\ forest0 \in ConstructorInputs
    /\ chromatograms = ForestConstruct(forest0)
    /\ count = 0
    /\ handled = {}
    /\ last_peak = NoPeak

HandlePeak ==
    /\ count < MaxPeaks
    /\ \E peak \in PeakPool \ handled :
          /\ chromatograms' \in handle_peak(chromatograms, peak)
          /\ handled' = handled \cup {peak}
          /\ last_peak' = peak
    /\ count' = count + 1
    /\ UNCHANGED <<forest0, smoother_vars, graph_vars, join_vars, prune_vars, reverse_vars, sweep_vars, binomial_vars, massdb_vars, dispatch_vars, merger_vars, search_vars, dijkstra_vars, between_vars, reader_vars, edges_vars, cache_vars, threaded_vars, piped_vars>>

IsSorted(array) ==
    \A i \in 1..(Len(array) - 1) : array[i].neutral_mass <= array[i + 1].neutral_mass

\* C4: after construction and after any sequence of handle_peak calls the
\* forest's chromatograms are sorted ascending by neutral_mass.
C4_ForestSorted == IsSorted(chromatograms)

\* The list with its element at position pos removed
Without(array, pos) == SubSeq(array, 1, pos - 1) \o SubSeq(array, pos + 1, Len(array))

MassError(chroma, peak) == Abs(chroma.neutral_mass - peak.neutral_mass)

\* C3: handle_peak(scan_id, peak): if some chromatogram of the forest is
\* within error_tolerance of the peak's mass, the peak is inserted into one
\* of least relative mass error and the number of chromatograms stays;
\* otherwise exactly one new single-peak chromatogram is added.  Peak A
\* (1000.0, intensity 100) then peak B (1000.00001, intensity 50) into an
\* empty forest leave one chromatogram holding both.
C3_HandlePeak ==
    /\ [][count' = count + 1 =>
            LET p == last_peak'
                cands == {i \in 1..Len(chromatograms) :
                            WithinTolerance(chromatograms[i].neutral_mass, p.neutral_mass)}
            IN IF cands # {}
               THEN /\ Len(chromatograms') = Len(chromatograms)
                    /\ \E i \in cands :
                         /\ \A j \in cands :
                              MassError(chromatograms[i], p) <= MassError(chromatograms[j], p)
                         /\ chromatograms'[i].nodes = chromatograms[i].nodes \cup {p}
                         /\ \A j \in 1..Len(chromatograms) :
                              j # i => chromatograms'[j] = chromatograms[j]
               ELSE /\ Len(chromatograms') = Len(chromatograms) + 1
                    /\ \E pos \in 1..Len(chromatograms') :
                         /\ chromatograms'[pos].nodes = {p}
                         /\ Without(chromatograms', pos) = chromatograms
       ]_vars
    /\ [](/\ forest0 = <<>>
          /\ handled = {Peak(2, 100000000, 100), Peak(1, 100000001, 50)}
          /\ last_peak = Peak(1, 100000001, 50)
          => /\ Len(chromatograms) = 1
             /\ chromatograms[1].nodes = handled)

\* Two peaks are near each other when each is within tolerance of the other
Near(p, q) ==
    /\ WithinTolerance(p.neutral_mass, q.neutral_mass)
    /\ WithinTolerance(q.neutral_mass, p.neutral_mass)

\* The peaks split into clusters: within tolerance is symmetric and
\* transitive on them
Clustered(peaks) ==
    /\ \A p, q \in peaks :
          WithinTolerance(p.neutral_mass, q.neutral_mass) => Near(p, q)
    /\ \A p, q, r \in peaks : Near(p, q) /\ Near(q, r) => Near(p, r)

Clusters(peaks) == {{q \in peaks : Near(p, q)} : p \in peaks}

\* C5: peaks that split into clusters, fed to handle_peak in any order from
\* an empty forest, give one chromatogram per cluster holding exactly that
\* cluster's peaks.
C5_OrderIndependent ==
    (forest0 = <<>> /\ Clustered(handled)) =>
        /\ Len(chromatograms) = Cardinality(Clusters(handled))
        /\ {chromatograms[i].nodes : i \in 1..Len(chromatograms)} = Clusters(handled)

C5_Witness ==
    /\ forest0 = <<>>
    /\ count = 3
    /\ Clustered(handled)
    /\ Cardinality(Clusters(handled)) = 2
    /\ last_peak.intensity = 100
    /\ \E p \in handled : p.intensity = 50 /\ Near(p, last_peak)

-----------------------------------------------------------------------------
(* ChromatogramMerger *)

\* span_overlap of trace.py, the five-case test that Chromatogram.
\* overlaps_in_time makes
span_overlap(a, b) ==
    \/ (start_time(a) <= start_time(b) /\ end_time(a) >= end_time(b))
    \/ (start_time(a) >= start_time(b) /\ end_time(a) <= end_time(b))
    \/ (start_time(a) >= start_time(b) /\ end_time(a) >= end_time(b)
            /\ start_time(a) <= end_time(b))
    \/ (start_time(a) <= start_time(b) /\ end_time(a) >= start_time(b))
    \/ (start_time(a) <= end_time(b) /\ end_time(a) >= end_time(b))

overlaps_in_time(a, b) == span_overlap(a, b)

\* The test merge_overlaps makes of one chromatogram of the range:
\* chroma.overlaps_in_time(chroma) and abs((chroma.neutral_mass -
\* new.neutral_mass) / new.neutral_mass), a number taken as a truth value
MergeTest(chroma, new_chromatogram) ==
    /\ overlaps_in_time(chroma, chroma)
    /\ Abs(chroma.neutral_mass - new_chromatogram.neutral_mass) # 0

\* merge_overlaps: has_merged.  chroma.merge(new_chromatogram) builds the
\* merged chromatogram and returns it; the call drops the returned value,
\* so the list is left as it was.
merge_overlaps(array, new_chromatogram, indices) ==
    \E k \in 1..Len(indices) :
        MergeTest(PyIndex(array, indices[k]), new_chromatogram)

\* handle_new_chromatogram: the merger's list after the call
handle_new_chromatogram(array, new_chromatogram) ==
    LET found == find_insertion_point(array, new_chromatogram.neutral_mass)
    IN IF found.matched
       THEN IF merge_overlaps(array, new_chromatogram, found.index)
            THEN array
            ELSE insert_chromatogram(array, new_chromatogram,
                    <<find_minimizing_index(array, new_chromatogram.neutral_mass,
                                            found.index)>>)
       ELSE insert_chromatogram(array, new_chromatogram, found.index)

RECURSIVE HandleAll(_, _, _)
HandleAll(array, unmatched, k) ==
    IF k > Len(unmatched) THEN array
    ELSE HandleAll(handle_new_chromatogram(array, unmatched[k]), unmatched, k + 1)

\* aggregate_chromatograms on a new merger: by descending total_signal
aggregate_chromatograms(chroma_list) ==
    HandleAll(<<>>,
              SortedBy(chroma_list,
                       [i \in 1..Len(chroma_list) |-> 0 - total_signal(chroma_list[i])]),
              1)

-----------------------------------------------------------------------------
(* ChromatogramOverlapSmoother over the retention-time interval tree.  A   *)
(* tree node holds the intervals that contain its center; those that end   *)
(* before the center go to its left subtree, those that start after it to  *)
(* its right subtree.  The center is the mean of the intervals' midpoints: *)
(* center = CenterSum / (2 * Len).                                         *)

RECURSIVE CenterSum(_, _)
CenterSum(intervals, k) ==
    IF k > Len(intervals) THEN 0
    ELSE start_time(intervals[k]) + end_time(intervals[k]) + CenterSum(intervals, k + 1)

LeftOf(intervals) ==
    LET c == CenterSum(intervals, 1)
        n == 2 * Len(intervals)
        IsLeft(i) == c > n * end_time(i)
    IN SelectSeq(intervals, IsLeft)

RightOf(intervals) ==
    LET c == CenterSum(intervals, 1)
        n == 2 * Len(intervals)
        IsRight(i) == c < n * start_time(i)
    IN SelectSeq(intervals, IsRight)

Contained(intervals) ==
    LET c == CenterSum(intervals, 1)
        n == 2 * Len(intervals)
        IsContained(i) == ~(c > n * end_time(i)) /\ ~(c < n * start_time(i))
    IN SelectSeq(intervals, IsContained)

\* aggregate_interval applied bottom-up (smooth): solution_map of the node
\* built from these intervals
RECURSIVE solution_map(_)
solution_map(intervals) ==
    IF Len(intervals) = 0 THEN <<>>
    ELSE aggregate_chromatograms(Contained(intervals)
                                 \o solution_map(LeftOf(intervals))
                                 \o solution_map(RightOf(intervals)))

smooth(chroma_list) == solution_map(chroma_list)

\* The chromatograms given to the smoother: masses 1000.0, 1000.0005 and
\* 1005.0, retention-time spans [10, 20], [12, 18] and [30, 40]
SmootherSpans == {<<10, 20>>, <<12, 18>>, <<30, 40>>}
SmootherMasses == {100000000, 100000050, 100500000}

SpanChromatogram(mass, span, intensity) ==
    [composition |-> NoComposition,
     nodes |-> {Peak(span[1], mass, intensity), Peak(span[2], mass, intensity)},
     neutral_mass |-> mass,
     most_abundant_member |-> intensity,
     used_as_adduct |-> <<>>, adducts |-> <<>>]

SmootherPool ==
    {SpanChromatogram(m, s, i) : m \in SmootherMasses, s \in SmootherSpans, i \in {1, 2}}

\* Sequences without repetition of at most n elements of S
RECURSIVE SeqsUpTo(_, _)
SeqsUpTo(S, n) ==
    IF n = 0 THEN {<<>>}
    ELSE LET shorter == SeqsUpTo(S, n - 1)
         IN shorter \cup {Append(s, x) : s \in shorter, x \in S}

Injective(s) == \A i, j \in 1..Len(s) : s[i] = s[j] => i = j

SmootherInit ==
    /\ sm_input \in {s \in SeqsUpTo(SmootherPool, MaxChromatograms) : Injective(s)}
    /\ sm_output = <<>>
    /\ sm_pc = "new"

Smooth ==
    /\ sm_pc = "new"
    /\ sm_output' = smooth(sm_input)
    /\ sm_pc' = "done"
    /\ UNCHANGED <<sm_input, forest_vars, graph_vars, join_vars, prune_vars, reverse_vars, sweep_vars, binomial_vars, massdb_vars, dispatch_vars, merger_vars, search_vars, dijkstra_vars, between_vars, reader_vars, edges_vars, cache_vars, threaded_vars, piped_vars>>

\* C1: the list the smoother produces is sorted ascending by neutral_mass
\* and holds no two entries within error_tolerance of each other whose
\* retention-time spans overlap.
C1_SortedSparseDisjoint ==
    sm_pc = "done" =>
        /\ IsSorted(sm_output)
        /\ \A i, j \in 1..Len(sm_output) :
              i < j => ~(/\ WithinTolerance(sm_output[i].neutral_mass,
                                            sm_output[j].neutral_mass)
                         /\ overlaps_in_time(sm_output[i], sm_output[j]))


\* The three chromatograms of the scenario, of any signal: 1000.0 over
\* [10, 20], 1000.0005 over [12, 18], 1005.0 over [10, 20]
ScenarioA(i) == SpanChromatogram(100000000, <<10, 20>>, i)
ScenarioB(i) == SpanChromatogram(100000050, <<12, 18>>, i)
ScenarioC(i) == SpanChromatogram(100500000, <<10, 20>>, i)

\* C2: on the scenario, given in any order, the smoother returns exactly two
\* chromatograms, the merge of the 1000.0 and 1000.0005 chromatograms
\* (spanning [10, 20]) and the unmodified 1005.0 chromatogram, for every
\* processing order.
C2_Scenario ==
    \A ia, ib, ic \in {1, 2} :
        (/\ sm_pc = "done"
         /\ Len(sm_input) = 3
         /\ Range(sm_input) = {ScenarioA(ia), ScenarioB(ib), ScenarioC(ic)}) =>
            /\ Len(sm_output) = 2
            /\ \E i, j \in 1..2 :
                  /\ i # j
                  /\ sm_output[i].nodes = ScenarioA(ia).nodes \cup ScenarioB(ib).nodes
                  /\ start_time(sm_output[i]) = 10
                  /\ end_time(sm_output[i]) = 20
                  /\ sm_output[j] = ScenarioC(ic)

-----------------------------------------------------------------------------
(* Composition graph (database/composition_network.py).                    *)
(*                                                                         *)
(* A composition is the pair <<Hex, HexNAc>> of its monosaccharide counts; *)
(* a node object is identified by its composition (its _str), which is     *)
(* what __eq__ and __hash__ of CompositionGraphNode use.  Scores and edge  *)
(* weights are integers in units of 1e-7 (1.0 = 10000000).                 *)

Infinity == 1000000
ScoreOne == 10000000

RECURSIVE Perms(_)
Perms(S) ==
    IF S = {} THEN {<<>>}
    ELSE UNION {{<<x>> \o p : p \in Perms(S \ {x})} : x \in S}

Min2(a, b) == IF a < b THEN a ELSE b

composition_distance(c1, c2) ==
    [distance |-> Abs(c1[1] - c2[1]) + Abs(c1[2] - c2[2]), weight |-> ScoreOne]

n_glycan_distance(c1, c2) ==
    LET d == composition_distance(c1, c2)
    IN  IF Abs(c1[1] - c2[1]) = 1 /\ Abs(c1[2] - c2[2]) = 1
        THEN [distance |-> d.distance - 1, weight |-> d.weight]
        ELSE IF c1[1] = c1[2] \/ c2[1] = c2[2]
             THEN [distance |-> d.distance, weight |-> d.weight \div 2]
             ELSE d

distance_fn(name, c1, c2) ==
    IF name = "n_glycan_distance" THEN n_glycan_distance(c1, c2)
    ELSE composition_distance(c1, c2)

\* CompositionGraphNode(composition, index, score)
CompositionGraphNode(composition, index, score) ==
    [composition |-> composition, index |-> index, _score |-> score, _temp_score |-> 0]

\* CompositionGraphNode.score
score(node) == IF node._score = 0 THEN node._temp_score ELSE node._score

\* EdgeSet: a store keyed by (edge.node1, edge.node2)
EdgeSet == [k \in {} |-> k]

EdgeKey(edge) == <<edge.node1, edge.node2>>

EdgeSet_add(store, edge) ==
    [k \in DOMAIN store \cup {EdgeKey(edge)} |->
        IF k = EdgeKey(edge) THEN edge ELSE store[k]]

add_if_shorter(store, edge) ==
    IF EdgeKey(edge) \in DOMAIN store /\ store[EdgeKey(edge)].order < edge.order
    THEN store
    ELSE EdgeSet_add(store, edge)

EdgeSet_remove(store, edge) ==
    [k \in DOMAIN store \ {EdgeKey(edge)} |-> store[k]]

EdgesOf(store) == {store[k] : k \in DOMAIN store}

\* The fields of a new CompositionGraphEdge
CompositionGraphEdge(node1, node2, order, weight) ==
    [node1 |-> node1, node2 |-> node2,
     order |-> IF order > 0 THEN order ELSE 1, weight |-> weight]

\* CompositionGraphEdge.__init__ adds the edge to both endpoints' edge sets
Attach(G, edge) ==
    [G EXCEPT !.node_edges =
        [c \in DOMAIN G.node_edges |->
            IF c \in {edge.node1, edge.node2}
            THEN add_if_shorter(G.node_edges[c], edge)
            ELSE G.node_edges[c]]]

_traverse(edge, node) == IF node = edge.node2 THEN edge.node1 ELSE edge.node2

Compositions(G) == {G.nodes[i].composition : i \in 1..Len(G.nodes)}

\* The node of the graph's list that has this composition
NodeAt(G, c) == G.nodes[CHOOSE i \in 1..Len(G.nodes) : G.nodes[i].composition = c]

index(G, c) == NodeAt(G, c).index

\* CompositionGraph(compositions): create_nodes, then an empty edge set
create_nodes(compositions) ==
    [nodes |-> [i \in 1..Len(compositions) |->
                    CompositionGraphNode(compositions[i], i - 1, 0)],
     node_map |-> [c \in Range(compositions) |-> c],
     edges |-> EdgeSet,
     node_edges |-> [c \in Range(compositions) |-> EdgeSet],
     error |-> "none"]

find_narrowly_related(members, composition, window) ==
    {m \in members :
        \/ m[2] = composition[2] /\ Abs(m[1] - composition[1]) <= window
        \/ m[1] = composition[1] /\ Abs(m[2] - composition[2]) <= window}

\* The loop of create_edges over the (node, related_node) pairs: a new
\* CompositionGraphEdge, then self.edges.add(e)
RECURSIVE CreateEdgesLoop(_, _, _)
CreateEdgesLoop(G, pairs, fn) ==
    IF pairs = {} THEN G
    ELSE LET p == CHOOSE q \in pairs : TRUE
             d == distance_fn(fn, p[1], p[2])
             e == CompositionGraphEdge(p[1], p[2], d.distance, d.weight)
         IN  CreateEdgesLoop([Attach(G, e) EXCEPT !.edges = EdgeSet_add(@, e)],
                             pairs \ {p}, fn)

create_edges(G, degree, fn) ==
    LET members == Compositions(G)
        pairs == {p \in members \X members :
                     /\ p[2] \in find_narrowly_related(members, p[1], degree)
                     /\ p[2] \in DOMAIN G.node_map
                     /\ index(G, p[1]) < index(G, p[2])}
    IN  CreateEdgesLoop(G, pairs, fn)

remove_edge(G, edge) ==
    IF EdgeKey(edge) \notin DOMAIN G.edges
    THEN [G EXCEPT !.error = "KeyError"]
    ELSE [G EXCEPT
            !.node_edges = [c \in DOMAIN G.node_edges |->
                               IF c \in {edge.node1, edge.node2}
                               THEN EdgeSet_remove(G.node_edges[c], edge)
                               ELSE G.node_edges[c]],
            !.edges = EdgeSet_remove(G.edges, edge)]

_reindex_skipped(nodes) == nodes

_reindex(nodes) == [i \in 1..Len(nodes) |-> [nodes[i] EXCEPT !.index = i - 1]]

(* DijkstraPathFinder.  The state of a search is the distance table, the   *)
(* unvisited set, the visit queue and the keys of unvisited_finite_distance *)
(* (its values always equal the distance table's).  Iteration over a dict  *)
(* or a set has no order the program fixes, so find_path yields the set of *)
(* distances the search can return.                                        *)

PathSum(d, order) == IF d >= Infinity THEN Infinity ELSE d + order

find_smallest_unvisited(st) ==
    LET iterable == IF st.unvisited_finite_distance = {} THEN st.unvisited
                    ELSE st.unvisited_finite_distance
    IN  {n \in iterable : \A m \in iterable : st.distance[n] <= st.distance[m]}

\* One pass of the loop body for an unvisited current_node
Visit(G, limit, st, current_node) ==
    LET unvisited == st.unvisited \ {current_node}
        edges == {e \in EdgesOf(G.node_edges[current_node]) :
                      _traverse(e, current_node) \in unvisited}
        edge_to_terminal(t) == CHOOSE e \in edges : _traverse(e, current_node) = t
        terminals == {_traverse(e, current_node) : e \in edges}
        path_length(t) == PathSum(st.distance[current_node], edge_to_terminal(t).order)
        improved == {t \in terminals : st.distance[t] > path_length(t)}
        queued == {t \in terminals : st.distance[t] < limit}
        distance == [n \in DOMAIN st.distance |->
                        IF n \in improved THEN path_length(n) ELSE st.distance[n]]
        finite == (st.unvisited_finite_distance \ {current_node})
                      \cup (improved \cap queued)
    IN  {[distance |-> distance, unvisited |-> unvisited,
          visit_queue |-> st.visit_queue \o p,
          unvisited_finite_distance |-> finite] : p \in Perms(queued)}

RECURSIVE find_path(_, _, _, _)
find_path(G, end, limit, st) ==
    IF end \notin st.unvisited THEN {st.distance[end]}
    ELSE IF st.visit_queue # <<>>
         THEN LET current_node == Head(st.visit_queue)
                  st1 == [st EXCEPT !.visit_queue = Tail(@)]
              IN  IF current_node \notin st.unvisited
                  THEN find_path(G, end, limit, st1)
                  ELSE UNION {find_path(G, end, limit, s) :
                                 s \in Visit(G, limit, st1, current_node)}
         ELSE UNION {UNION {find_path(G, end, limit, s) :
                               s \in Visit(G, limit, st, current_node)} :
                        current_node \in find_smallest_unvisited(st)}

\* DijkstraPathFinder(graph, start, end, limit).search()
search(G, start, end, limit) ==
    find_path(G, end, limit,
              [distance |-> [n \in Compositions(G) |-> IF n = start THEN 0 ELSE Infinity],
               unvisited |-> Compositions(G),
               visit_queue |-> <<start>>,
               unvisited_finite_distance |-> {}])

\* node1.edge_to(node2) finds an edge
HasEdgeTo(G, node1, node2) ==
    LET key == IF index(G, node2) < index(G, node1) THEN <<node2, node1>>
               ELSE <<node1, node2>>
    IN  key \in DOMAIN G.node_edges[node1]

Bridge_skipped(G, node1, node2, path_length, limit) == G

\* The bridging edge put into the graph's edge set alone
Bridge_unattached(G, node1, node2, path_length, limit) ==
    IF path_length < limit
    THEN LET n1 == IF index(G, node1) > index(G, node2) THEN node2 ELSE node1
             n2 == IF index(G, node1) > index(G, node2) THEN node1 ELSE node2
         IN  [G EXCEPT !.edges =
                 add_if_shorter(@, CompositionGraphEdge(n1, n2, path_length, ScoreOne))]
    ELSE G

\* Lines 424-429: the bridging edge
Bridge(G, node1, node2, path_length, limit) ==
    IF path_length < limit
    THEN LET n1 == IF index(G, node1) > index(G, node2) THEN node2 ELSE node1
             n2 == IF index(G, node1) > index(G, node2) THEN node1 ELSE node2
             new_edge == CompositionGraphEdge(n1, n2, path_length, ScoreOne)
             G1 == Attach(G, new_edge)
         IN  [G1 EXCEPT !.edges = add_if_shorter(@, new_edge)]
    ELSE G

\* The double loop of lines 398-429 over subtracted_edges, from its k-th
\* (edge, other_edge) pair on
RECURSIVE BridgeLoop(_, _, _, _, _, _)
BridgeLoop(G, node, subtracted_edges, k, seen, limit) ==
    LET n == Len(subtracted_edges)
    IN  IF k >= n * n THEN {G}
        ELSE
          LET edge == subtracted_edges[(k \div n) + 1]
              other_edge == subtracted_edges[(k % n) + 1]
              node1 == _traverse(edge, node)
              node2 == _traverse(other_edge, node)
              key == {index(G, node1), index(G, node2)}
              old_distance == edge.order + other_edge.order
          IN  IF edge = other_edge \/ key \in seen
              THEN BridgeLoop(G, node, subtracted_edges, k + 1, seen, limit)
              ELSE IF old_distance >= limit \/ HasEdgeTo(G, node1, node2)
              THEN BridgeLoop(G, node, subtracted_edges, k + 1, seen \cup {key}, limit)
              ELSE UNION {BridgeLoop(
                              Bridge(G, node1, node2, Min2(old_distance, shortest_path), limit),
                              node, subtracted_edges, k + 1, seen \cup {key}, limit) :
                          shortest_path \in
                              search(G, node1, node2, Min2(old_distance + 1, limit))}

RECURSIVE RemoveEdges(_, _, _)
RemoveEdges(G, subtracted_edges, i) ==
    IF i > Len(subtracted_edges) \/ G.error # "none" THEN G
    ELSE RemoveEdges(remove_edge(G, subtracted_edges[i]), subtracted_edges, i + 1)

\* CompositionGraph.remove_node: the graphs it can leave, one per order in
\* which the removed node's edge set is listed and per search outcome
remove_node(G, composition, bridge, limit) ==
    LET node == G.node_map[composition]
    IN  UNION {
          LET G1 == RemoveEdges(G, subtracted_edges, 1)
              G2 == [G1 EXCEPT
                       !.nodes = _reindex(Without(G1.nodes, index(G, node) + 1)),
                       !.node_map = [c \in DOMAIN G1.node_map \ {composition} |->
                                        G1.node_map[c]]]
          IN  IF G1.error # "none" THEN {G1}
              ELSE IF bridge THEN BridgeLoop(G2, node, subtracted_edges, 0, {}, limit)
              ELSE {G2}
          : subtracted_edges \in Perms(EdgesOf(G.node_edges[node]))}

(* GraphWriter and GraphReader.  A line of the file is a record: marker is *)
(* the text of a "#..." line, fields the tab-separated fields of a data    *)
(* line.  "%d" writes an integer as its decimal digits; "%f" writes a real *)
(* rounded to six decimals, here the digits of the value in units of 1e-6. *)

RECURSIVE FormatD(_)
FormatD(n) == IF n < 10 THEN <<n>> ELSE FormatD(n \div 10) \o <<n % 10>>

RECURSIVE int(_)
int(digits) ==
    IF Len(digits) = 1 THEN digits[1]
    ELSE 10 * int(SubSeq(digits, 1, Len(digits) - 1)) + digits[Len(digits)]

FormatF(x) == FormatD((x + 5) \div 10)

float(digits) == 10 * int(digits)

\* GlycanComposition.serialize: the monosaccharides with a non-zero count
serialize(composition) ==
    SelectSeq(<< <<"Hex", composition[1]>>, <<"HexNAc", composition[2]>> >>,
              LAMBDA p : p[2] # 0)

CountOf(text, name) ==
    IF \E i \in 1..Len(text) : text[i][1] = name
    THEN text[CHOOSE i \in 1..Len(text) : text[i][1] = name][2]
    ELSE 0

\* HashableGlycanComposition.parse
parse(text) == <<CountOf(text, "Hex"), CountOf(text, "HexNAc")>>

MarkerLine(text) == [marker |-> text, fields |-> <<>>]
DataLine(fields) == [marker |-> "", fields |-> fields]

handle_node(node) ==
    DataLine(<<FormatD(node.index), serialize(node.composition), FormatF(score(node))>>)

handle_edge(G, edge) ==
    DataLine(<<FormatD(index(G, edge.node1)), FormatD(index(G, edge.node2)),
               FormatD(edge.order), FormatF(edge.weight)>>)

\* GraphWriter.handle_graph, with the graph's edge set iterated in edge_order
handle_graph(G, edge_order) ==
    <<MarkerLine("#COMPOSITIONGRAPH 1.0"), MarkerLine("#NODE")>>
        \o [i \in 1..Len(G.nodes) |-> handle_node(G.nodes[i])]
        \o <<MarkerLine("#EDGE")>>
        \o [i \in 1..Len(edge_order) |-> handle_edge(G, edge_order[i])]

handle_node_line(net, line) ==
    IF Len(line.fields) \notin {2, 3} THEN [net EXCEPT !.error = "ValueError"]
    ELSE LET composition == parse(line.fields[2])
             node == CompositionGraphNode(
                         composition, int(line.fields[1]),
                         IF Len(line.fields) = 3 THEN float(line.fields[3]) ELSE 0)
         IN  [net EXCEPT
                !.nodes = Append(@, node),
                !.node_map = [c \in DOMAIN @ \cup {composition} |-> c],
                !.node_edges = [c \in DOMAIN @ \cup {composition} |->
                                   IF c = composition THEN EdgeSet ELSE @[c]]]

handle_edge_line(net, line) ==
    IF Len(line.fields) # 4 THEN [net EXCEPT !.error = "ValueError"]
    ELSE LET index1 == int(line.fields[1])
             index2 == int(line.fields[2])
         IN  IF index1 >= Len(net.nodes) \/ index2 >= Len(net.nodes)
             THEN [net EXCEPT !.error = "IndexError"]
             ELSE LET edge == CompositionGraphEdge(
                                  net.nodes[index1 + 1].composition,
                                  net.nodes[index2 + 1].composition,
                                  int(line.fields[3]), float(line.fields[4]))
                      net1 == Attach(net, edge)
                  IN  [net1 EXCEPT !.edges = EdgeSet_add(@, edge)]

RECURSIVE handle_graph_file(_, _, _, _)
handle_graph_file(lines, i, state, net) ==
    IF i > Len(lines) \/ net.error # "none" THEN net
    ELSE LET line == lines[i]
         IN  IF state = "START"
             THEN handle_graph_file(lines, i + 1,
                      IF line.marker = "#NODE" THEN "NODE" ELSE "START", net)
             ELSE IF state = "NODE"
             THEN IF line.marker = "#EDGE"
                  THEN handle_graph_file(lines, i + 1, "EDGE", net)
                  ELSE handle_graph_file(lines, i + 1, "NODE", handle_node_line(net, line))
             ELSE handle_graph_file(lines, i + 1, "EDGE", handle_edge_line(net, line))

\* GraphReader.read
GraphReader(lines) == handle_graph_file(lines, 1, "START", create_nodes(<<>>))

(* The graph's life in the model: CompositionGraph(compositions) followed  *)
(* by create_edges; then scores are assigned and nodes removed; then the   *)
(* graph is written, and the text is read back.                            *)

MaxRemovals == 2
MaxScored == 1

GraphInputs ==
    { << <<0, 0>>, <<2, 0>>, <<4, 0>>, <<5, 0>> >>,
      << <<0, 0>>, <<1, 0>>, <<2, 0>>, <<3, 0>> >>,
      << <<1, 1>>, <<2, 1>>, <<1, 2>>, <<2, 2>> >>,
      << <<3, 2>>, <<1, 2>>, <<2, 2>>, <<2, 4>> >>,
      << <<0, 1>>, <<2, 1>>, <<3, 1>> >> }

Degrees == {1, 2}
DistanceFns == {"composition_distance", "n_glycan_distance"}
Limits == {3, 5}
ScoreValues == {5000000, 1234567}

NoCall == [node |-> <<>>, index |-> 0, bridge |-> FALSE, limit |-> 0]

GraphInit ==
    /\ \E compositions \in GraphInputs, degree \in Degrees, fn \in DistanceFns :
          graph = create_edges(create_nodes(compositions), degree, fn)
    /\ network = create_nodes(<<>>)
    /\ file_obj = <<>>
    /\ graph_pc = "built"
    /\ removed = 0
    /\ scored = 0
    /\ last_call = NoCall

\* composition_distribution_model.py:209-211: node._temp_score = ...
AssignScore ==
    /\ graph_pc = "built"
    /\ scored < MaxScored
    /\ \E i \in 1..Len(graph.nodes), s \in ScoreValues :
          /\ graph.nodes[i]._temp_score = 0
          /\ graph' = [graph EXCEPT !.nodes[i]._temp_score = s]
    /\ scored' = scored + 1
    /\ UNCHANGED <<network, file_obj, graph_pc, removed, last_call>>
    /\ UNCHANGED <<forest_vars, smoother_vars, join_vars, prune_vars, reverse_vars, sweep_vars, binomial_vars, massdb_vars, dispatch_vars, merger_vars, search_vars, dijkstra_vars, between_vars, reader_vars, edges_vars, cache_vars, threaded_vars, piped_vars>>

RemoveNode ==
    /\ graph_pc = "built"
    /\ removed < MaxRemovals
    /\ \E i \in 1..Len(graph.nodes), bridge \in BOOLEAN, limit \in Limits :
          /\ graph' \in remove_node(graph, graph.nodes[i].composition, bridge, limit)
          /\ last_call' = [node |-> graph.nodes[i].composition,
                           index |-> graph.nodes[i].index,
                           bridge |-> bridge, limit |-> limit]
    /\ removed' = removed + 1
    /\ UNCHANGED <<network, file_obj, graph_pc, scored>>
    /\ UNCHANGED <<forest_vars, smoother_vars, join_vars, prune_vars, reverse_vars, sweep_vars, binomial_vars, massdb_vars, dispatch_vars, merger_vars, search_vars, dijkstra_vars, between_vars, reader_vars, edges_vars, cache_vars, threaded_vars, piped_vars>>

\* dump(graph, file_obj)
Dump ==
    /\ graph_pc = "built"
    /\ file_obj' \in {handle_graph(graph, p) : p \in Perms(EdgesOf(graph.edges))}
    /\ graph_pc' = "dumped"
    /\ UNCHANGED <<graph, network, removed, scored, last_call>>
    /\ UNCHANGED <<forest_vars, smoother_vars, join_vars, prune_vars, reverse_vars, sweep_vars, binomial_vars, massdb_vars, dispatch_vars, merger_vars, search_vars, dijkstra_vars, between_vars, reader_vars, edges_vars, cache_vars, threaded_vars, piped_vars>>

\* load(file_obj)
Load ==
    /\ graph_pc = "dumped"
    /\ network' = GraphReader(file_obj)
    /\ graph_pc' = "loaded"
    /\ UNCHANGED <<graph, file_obj, removed, scored, last_call>>
    /\ UNCHANGED <<forest_vars, smoother_vars, join_vars, prune_vars, reverse_vars, sweep_vars, binomial_vars, massdb_vars, dispatch_vars, merger_vars, search_vars, dijkstra_vars, between_vars, reader_vars, edges_vars, cache_vars, threaded_vars, piped_vars>>

\* The length (sum of edge orders) of a shortest path from a to b that uses
\* at most k edges of the graph's edge set, Infinity when there is none
RECURSIVE PathLength(_, _, _, _)
PathLength(G, a, b, k) ==
    IF a = b THEN 0
    ELSE IF k = 0 THEN Infinity
    ELSE LET through == {PathSum(PathLength(G, _traverse(e, a), b, k - 1), e.order) :
                            e \in {x \in EdgesOf(G.edges) : a \in {x.node1, x.node2}}}
         IN  IF through = {} THEN Infinity ELSE SetMin(through)

ShortestPath(G, a, b) == PathLength(G, a, b, Len(G.nodes) - 1)

Connected(G, a, b) == ShortestPath(G, a, b) < Infinity

\* The graph-level edge set and the nodes' edge sets hold the same edges
EdgesAgree(G) ==
    /\ \A c \in DOMAIN G.node_edges :
          \A k \in DOMAIN G.node_edges[c] :
              k \in DOMAIN G.edges /\ G.edges[k] = G.node_edges[c][k] /\ c \in {k[1], k[2]}
    /\ \A k \in DOMAIN G.edges :
          \A c \in {k[1], k[2]} :
              c \in DOMAIN G.node_edges /\ k \in DOMAIN G.node_edges[c]

\* remove_edge never fails: the edge sets agree, so no KeyError is raised
GraphEdgesAgree == EdgesAgree(graph) /\ graph.error = "none"

\* C8: after create_nodes and after any sequence of remove_node calls (with
\* or without bridging), the node at position i of graph.nodes has index i
\* (graph.nodes[node.index] is node), and node_map holds exactly the nodes
\* that remain in graph.nodes.
C8_IndexAndNodeMap ==
    /\ \A i \in 1..Len(graph.nodes) : graph.nodes[i].index = i - 1
    /\ DOMAIN graph.node_map = Compositions(graph)
    /\ \A c \in DOMAIN graph.node_map : graph.node_map[c] = c
    /\ Cardinality(Compositions(graph)) = Len(graph.nodes)

C8_Witness ==
    /\ removed = MaxRemovals
    /\ last_call.bridge
    /\ last_call.index < Len(graph.nodes)
    /\ DOMAIN graph.edges # {}

\* The (endpoint indices, order, weight) of the graph's edges
EdgeTuples(G) ==
    {<<index(G, e.node1), index(G, e.node2), e.order, e.weight>> : e \in EdgesOf(G.edges)}

SameGraph(G, N) ==
    /\ Len(N.nodes) = Len(G.nodes)
    /\ Cardinality(DOMAIN N.edges) = Cardinality(DOMAIN G.edges)
    /\ \A i \in 1..Len(G.nodes) :
          /\ N.nodes[i].composition = G.nodes[i].composition
          /\ score(N.nodes[i]) = score(G.nodes[i])
    /\ EdgeTuples(N) = EdgeTuples(G)

\* C6: the graph GraphReader reads from the text GraphWriter wrote has the
\* same number of nodes and edges as the written graph, the same composition
\* and score at every index, and the same (endpoint indices, order, weight)
\* for every edge, also when nodes were removed before writing.
C6_RoundTrip == graph_pc = "loaded" => network.error = "none" /\ SameGraph(graph, network)

OrderBetween(G, a, b) ==
    IF <<a, b>> \in DOMAIN G.edges THEN G.edges[<<a, b>>].order
    ELSE IF <<b, a>> \in DOMAIN G.edges THEN G.edges[<<b, a>>].order
    ELSE 0

Neighbours(G, x) == {c \in Compositions(G) \ {x} : OrderBetween(G, x, c) > 0}

\* Every two neighbours of x are nearer than limit through x
AllBridgeable(G, x, limit) ==
    \A a, b \in Neighbours(G, x) :
        a # b => OrderBetween(G, a, x) + OrderBetween(G, x, b) < limit

-----------------------------------------------------------------------------
(* Adduct joining: join_mass_shifted of trace.py over a ChromatogramFilter *)
(* (chromatogram_tree/index.py).  An adduct is a record of its name and    *)
(* its mass.                                                               *)

\* The sweep of index.py's binary_search_with_flag from position i in
\* direction step: the best position and its error so far
RECURSIVE SweepBest(_, _, _, _, _)
SweepBest(array, mass, i, step, best) ==
    IF i < 0 \/ i >= Len(array) THEN best
    ELSE LET err == Abs(array[i + 1].neutral_mass - mass)
         IN  SweepBest(array, mass, i + step, step,
                       IF err < best.best_error
                       THEN [best_index |-> i, best_error |-> err]
                       ELSE best)

\* binary_search_with_flag of chromatogram_tree/index.py: (index, flag).
\* Errors are compared by their numerators, the denominator being mass.
RECURSIVE FilterSearchLoop(_, _, _, _)
FilterSearchLoop(array, mass, lo, hi) ==
    IF hi = lo THEN [index |-> 0, flag |-> FALSE]
    ELSE LET mid == (hi + lo) \div 2
             err == array[mid + 1].neutral_mass - mass
         IN  IF WithinTolerance(array[mid + 1].neutral_mass, mass)
             THEN LET down == SweepBest(array, mass, mid - 1, -1,
                                        [best_index |-> mid, best_error |-> err])
                      up == SweepBest(array, mass, mid + 1, 1, down)
                  IN  [index |-> up.best_index, flag |-> TRUE]
             ELSE IF hi - lo = 1 THEN [index |-> mid, flag |-> FALSE]
             ELSE IF err > 0 THEN FilterSearchLoop(array, mass, lo, mid)
             ELSE FilterSearchLoop(array, mass, mid, hi)

find_mass_none(collection, mass) == 0

\* ChromatogramFilter.find_mass: the position (from 1) of the chromatogram
\* it returns, 0 for None
find_mass(collection, mass) ==
    LET found == FilterSearchLoop(collection, mass, 0, Len(collection))
    IN  IF found.flag THEN found.index + 1 ELSE 0

\* The rank of chromatogram i under sorted(..., key=(neutral_mass, start_time))
FilterRank(cs, i) ==
    1 + Cardinality({j \in 1..Len(cs) :
            \/ cs[j].neutral_mass < cs[i].neutral_mass
            \/ /\ cs[j].neutral_mass = cs[i].neutral_mass
               /\ \/ start_time(cs[j]) < start_time(cs[i])
                  \/ start_time(cs[j]) = start_time(cs[i]) /\ j < i})

\* ChromatogramFilter(chromatograms)
ChromatogramFilter(collection) ==
    LET cs == SelectSeq(collection, LAMBDA c : c.nodes # {})
    IN  [p \in 1..Len(cs) |-> cs[CHOOSE i \in 1..Len(cs) : FilterRank(cs, i) = p]]

\* Chromatogram.key
key(c) == IF c.composition # NoComposition THEN c.composition ELSE c.neutral_mass

\* Chromatogram.merge fails when both collection hold an observation for
\* the same scan id with different content
DuplicateNode(a, b) ==
    \E p \in a.nodes, q \in b.nodes :
        /\ p.scan_id = q.scan_id
        /\ <<p.neutral_mass, p.intensity>> # <<q.neutral_mass, q.intensity>>

\* Chromatogram.merge(other, node_type): a new chromatogram holding the
\* nodes of both, those of other typed node_type
merge(a, b, node_type) ==
    [a EXCEPT !.nodes = a.nodes \cup {[q EXCEPT !.node_type = node_type] : q \in b.nodes}]

NoError == [original |-> <<>>, to_add |-> <<>>, accumulated |-> <<>>, adduct |-> <<>>]

\* The loop over the adducts for the chromatogram at position i, from the
\* j-th adduct on.  add is the chromatogram accumulated so far and merged
\* tells whether it is still the object chroma.
RECURSIVE AdductLoop(_, _, _, _, _, _)
AdductLoop(collection, i, add, merged, adducts, j) ==
    IF j > Len(adducts)
    THEN [chromatograms |-> collection, add |-> add, merged |-> merged,
          raised |-> FALSE, error |-> NoError]
    ELSE
      LET chroma == collection[i]
          adduct == adducts[j]
          m == find_mass(collection, chroma.neutral_mass + adduct.mass)
      IN  IF m # 0 /\ span_overlap(IF merged THEN add ELSE chroma, collection[m])
          THEN LET accumulated == IF merged THEN add ELSE chroma
                   marked == [collection EXCEPT
                                 ![m].used_as_adduct = Append(@, <<key(accumulated), adduct>>)]
                   match == marked[m]
                   base == IF merged THEN add ELSE marked[i]
               IN  IF DuplicateNode(base, match)
                   THEN [chromatograms |-> marked, add |-> base, merged |-> merged,
                         raised |-> TRUE,
                         error |-> [original |-> marked[i], to_add |-> match,
                                    accumulated |-> base, adduct |-> adduct]]
                   ELSE AdductLoop(marked, i,
                                   [merge(base, match, adduct.name) EXCEPT
                                       !.adducts = Append(@, adduct)],
                                   TRUE, adducts, j + 1)
          ELSE AdductLoop(collection, i, add, merged, adducts, j + 1)

\* The loop over the chromatograms from position i on.  out holds, for each
\* chromatogram handled, either the merged chromatogram or the position of
\* the (unmerged) input chromatogram, whose later changes it shares.
RECURSIVE JoinLoop(_, _, _, _)
JoinLoop(collection, adducts, i, out) ==
    IF i > Len(collection)
    THEN [raised |-> FALSE,
          out |-> ChromatogramFilter(
                      [k \in 1..Len(out) |->
                          IF out[k].ref = 0 THEN out[k].add ELSE collection[out[k].ref]]),
          chromatograms |-> collection,
          error |-> NoError]
    ELSE LET r == AdductLoop(collection, i, collection[i], FALSE, adducts, 1)
         IN  IF r.raised
             THEN [raised |-> TRUE, out |-> <<>>,
                   chromatograms |-> r.chromatograms, error |-> r.error]
             ELSE JoinLoop(r.chromatograms, adducts, i + 1,
                           Append(out, [ref |-> IF r.merged THEN 0 ELSE i, add |-> r.add]))

\* join_mass_shifted with the except clause returning instead of raising
join_mass_shifted_swallowed(collection, adducts) ==
    [JoinLoop(collection, adducts, 1, <<>>) EXCEPT !.raised = FALSE]

\* join_mass_shifted(chromatograms, adducts): what it returns (out) or raises
\* (error), and the given chromatograms as the call leaves them
join_mass_shifted(collection, adducts) == JoinLoop(collection, adducts, 1, <<>>)

MaxJoined == 3

Sodium == [name |-> "Na", mass |-> 2298920]
Ammonium == [name |-> "NH4", mass |-> 1702655]

AdductLists == {<<Sodium>>, <<Sodium, Ammonium>>, <<Ammonium, Sodium>>}

JoinMasses == {100000000, 102298920, 101702655, 102298950}
JoinSpans == {<<5, 15>>, <<6, 14>>, <<13, 18>>, <<16, 20>>}

JoinPool == {SpanChromatogram(m, s, 1) : m \in JoinMasses, s \in JoinSpans}

NoResult == [raised |-> FALSE, out |-> <<>>, chromatograms |-> <<>>, error |-> NoError]

JoinInit ==
    /\ \E s \in SeqsUpTo(JoinPool, MaxJoined) :
          /\ Injective(s)
          /\ jm_chromatograms = ChromatogramFilter(s)
    /\ jm_adducts \in AdductLists
    /\ jm_result = NoResult
    /\ jm_pc = "new"

JoinMassShifted ==
    /\ jm_pc = "new"
    /\ jm_result' = join_mass_shifted(jm_chromatograms, jm_adducts)
    /\ jm_pc' = "done"
    /\ UNCHANGED <<jm_chromatograms, jm_adducts>>
    /\ UNCHANGED <<forest_vars, smoother_vars, graph_vars, prune_vars, reverse_vars, sweep_vars, binomial_vars, massdb_vars, dispatch_vars, merger_vars, search_vars, dijkstra_vars, between_vars, reader_vars, edges_vars, cache_vars, threaded_vars, piped_vars>>

\* The observations (scan, mass, intensity) a chromatogram holds
Observations(c) == {<<p.scan_id, p.neutral_mass, p.intensity>> : p \in c.nodes}

ScenarioBase == SpanChromatogram(100000000, <<5, 15>>, 1)
ScenarioShifted == SpanChromatogram(102298920, <<6, 14>>, 1)

ScenarioJoined ==
    /\ jm_pc = "done"
    /\ jm_chromatograms = <<ScenarioBase, ScenarioShifted>>
    /\ jm_adducts = <<Sodium>>

\* C9: join_mass_shifted on a base at mass 1000.0 (RT [5,15]) and a second
\* chromatogram at mass 1022.9892 (RT [6,14]) with one adduct of mass
\* 22.9892 returns a single chromatogram holding the observations of both.
C9_SingleChromatogram ==
    ScenarioJoined =>
        /\ ~jm_result.raised
        /\ Len(jm_result.out) = 1
        /\ Observations(jm_result.out[1]) =
               Observations(ScenarioBase) \cup Observations(ScenarioShifted)

\* C9 (amended): in that scenario join_mass_shifted returns two
\* chromatograms: the base merged with the second, holding the observations
\* of both (those of the second typed with the adduct) and listing the
\* adduct, and the second chromatogram itself, its observations unchanged
\* and (base.key, adduct) recorded in its used_as_adduct.
C9_MergedAndContributor ==
    ScenarioJoined =>
        /\ ~jm_result.raised
        /\ Len(jm_result.out) = 2
        /\ Observations(jm_result.out[1]) =
               Observations(ScenarioBase) \cup Observations(ScenarioShifted)
        /\ {p \in jm_result.out[1].nodes : p.node_type = Sodium.name} =
               {[q EXCEPT !.node_type = Sodium.name] : q \in ScenarioShifted.nodes}
        /\ jm_result.out[1].adducts = <<Sodium>>
        /\ jm_result.out[1].used_as_adduct = <<>>
        /\ jm_result.out[2].nodes = ScenarioShifted.nodes
        /\ jm_result.out[2].adducts = <<>>
        /\ jm_result.out[2].used_as_adduct = << <<key(ScenarioBase), Sodium>> >>

C9_Witness == ScenarioJoined /\ ~jm_result.raised /\ jm_result.out # <<>>

\* The chromatogram found for base i and adduct j overlaps the base in time
Matches(i, j, m) ==
    /\ m = find_mass(jm_chromatograms, jm_chromatograms[i].neutral_mass + jm_adducts[j].mass)
    /\ span_overlap(jm_chromatograms[i], jm_chromatograms[m])

\* The (base.key, adduct) pairs of the matches of chromatogram m, from the
\* k-th (base, adduct) pair on, in the order the bases and adducts are gone
\* through
RECURSIVE ExpectedUsedAsAdduct(_, _)
ExpectedUsedAsAdduct(m, k) ==
    LET n == Len(jm_adducts)
        i == (k \div n) + 1
        j == (k % n) + 1
    IN  IF k >= Len(jm_chromatograms) * n THEN <<>>
        ELSE (IF Matches(i, j, m) THEN << <<key(jm_chromatograms[i]), jm_adducts[j]>> >> ELSE <<>>)
                 \o ExpectedUsedAsAdduct(m, k + 1)

ExpectedNodes(i) ==
    jm_chromatograms[i].nodes \cup
        UNION {{[q EXCEPT !.node_type = jm_adducts[j].name] : q \in jm_chromatograms[m].nodes} :
                  <<j, m>> \in {x \in (1..Len(jm_adducts)) \X (1..Len(jm_chromatograms)) :
                                   Matches(i, x[1], x[2])}}

ExpectedAdducts(i) ==
    SelectSeq(jm_adducts,
              LAMBDA a : \E j \in 1..Len(jm_adducts), m \in 1..Len(jm_chromatograms) :
                             jm_adducts[j] = a /\ Matches(i, j, m))

\* C10: in join_mass_shifted, for a chromatogram M found at base.neutral_mass
\* + adduct.mass within tolerance that overlaps the base in time, M's
\* observations are merged into the base as nodes typed with the adduct, the
\* adduct is appended to the merged chromatogram's adducts and (base.key,
\* adduct) to M.used_as_adduct; when no such M is found or M does not overlap
\* the base in time, neither the base nor any used_as_adduct list changes.
C10_MergeExactlyOverlappingMatches ==
    (jm_pc = "done" /\ ~jm_result.raised) =>
        /\ \A m \in 1..Len(jm_chromatograms) :
              jm_result.chromatograms[m].used_as_adduct = ExpectedUsedAsAdduct(m, 0)
        /\ {<<c.nodes, c.adducts>> : c \in Range(jm_result.out)} =
               {<<ExpectedNodes(i), ExpectedAdducts(i)>> : i \in 1..Len(jm_chromatograms)}

-----------------------------------------------------------------------------
(* Adduct pruning: prune_bad_adduct_branches of trace.py over the scored   *)
(* solutions.  A solution is a record of its chromatogram and its score;   *)
(* scores are in tenths.                                                   *)

ChromatogramSolution(c, s) == [chromatogram |-> c, score |-> s]

\* mask_subsequence(target, masker) of grouping.py: a new chromatogram of
\* the composition of target holding the nodes of target whose observation
\* masker does not hold
mask_subsequence(target, masker) ==
    [composition |-> target.composition,
     nodes |-> {p \in target.nodes :
                   <<p.scan_id, p.neutral_mass, p.intensity>> \notin Observations(masker)},
     neutral_mass |-> target.neutral_mass,
     most_abundant_member |-> target.most_abundant_member,
     used_as_adduct |-> <<>>, adducts |-> <<>>]

\* A member of a DisjointChromatogramSet is the solution at position ref of
\* the solutions, whose later changes it shares, or (ref = 0) the item put
\* there by replace.
Resolve(objs, entry) == IF entry.ref = 0 THEN entry.item ELSE objs[entry.ref]

\* DisjointChromatogramSet(chromatograms): the members sorted by start_time
DisjointChromatogramSet(objs, members) ==
    LET sorted == SortedBy(members,
                      [p \in 1..Len(members) |-> start_time(objs[members[p]].chromatogram)])
    IN  [p \in 1..Len(sorted) |-> [ref |-> sorted[p], item |-> objs[sorted[p]]]]

\* ChromatogramFilter._build_key_map
_build_key_map(objs) ==
    [k \in {key(objs[i].chromatogram) : i \in 1..Len(objs)} |->
        DisjointChromatogramSet(objs,
            SelectSeq([i \in 1..Len(objs) |-> i],
                      LAMBDA i : key(objs[i].chromatogram) = k))]

\* DisjointChromatogramSet.linear_search(start_time, end_time) from position
\* p on: the position of the first member whose span holds the center time
\* (start_time + end_time) / 2., 0 for None
RECURSIVE linear_search(_, _, _, _, _)
linear_search(objs, group, start, end, p) ==
    IF p > Len(group) THEN 0
    ELSE LET chrom == Resolve(objs, group[p]).chromatogram
         IN  IF /\ 2 * start_time(chrom) <= start + end
                /\ start + end <= 2 * end_time(chrom)
             THEN p
             ELSE linear_search(objs, group, start, end, p + 1)

\* DisjointChromatogramSet.find_overlap(chromatogram)
find_overlap(objs, group, chromatogram) ==
    linear_search(objs, group, start_time(chromatogram), end_time(chromatogram), 1)

\* DisjointChromatogramSet.replace(original, replacement), original being
\* the member at position p
replace(group, p, replacement) == [group EXCEPT ![p] = [ref |-> 0, item |-> replacement]]

\* The loop of prune_bad_adduct_branches over the back-references refs of
\* case i, from the j-th on
RECURSIVE BranchLoop(_, _, _, _, _)
BranchLoop(st, i, refs, j, keepers) ==
    IF j > Len(refs)
    THEN [st EXCEPT !.objs[i].chromatogram.used_as_adduct = keepers]
    ELSE
      LET owning_key == refs[j][1]
          case == st.objs[i]
      IN  IF owning_key \notin DOMAIN st.key_map
          THEN BranchLoop(st, i, refs, j + 1, keepers)
          ELSE
            LET owner == st.key_map[owning_key]
                p == find_overlap(st.objs, owner, case.chromatogram)
            IN  IF p = 0
                THEN BranchLoop(st, i, refs, j + 1, keepers)
                ELSE
                  LET owner_item == Resolve(st.objs, owner[p])
                  IN  IF case.score > owner_item.score
                      THEN
                        LET new_masked == ChromatogramSolution(
                                mask_subsequence(owner_item.chromatogram, case.chromatogram),
                                owner_item.score)
                        IN  BranchLoop(
                              [st EXCEPT
                                 !.key_map[owning_key] =
                                     IF new_masked.chromatogram.nodes # {}
                                     THEN replace(owner, p, new_masked)
                                     ELSE owner,
                                 !.updated = @ \cup {owning_key}],
                              i, refs, j + 1, keepers)
                      ELSE BranchLoop(st, i, refs, j + 1, Append(keepers, refs[j]))

\* The loop of prune_bad_adduct_branches over the solutions from case i on
RECURSIVE CaseLoop(_, _)
CaseLoop(st, i) ==
    IF i > Len(st.objs) THEN st
    ELSE LET used == st.objs[i].chromatogram.used_as_adduct
         IN  IF used # <<>>
             THEN CaseLoop(BranchLoop(st, i, used, 1, <<>>), i + 1)
             ELSE CaseLoop(st, i + 1)

\* The members of the groups of the keys ks, in that order
RECURSIVE Members(_, _)
Members(st, ks) ==
    IF ks = <<>> THEN <<>>
    ELSE [p \in 1..Len(st.key_map[Head(ks)]) |->
              Resolve(st.objs, st.key_map[Head(ks)][p]).chromatogram]
         \o Members(st, Tail(ks))

\* prune_bad_adduct_branches(solutions): the collection it returns and the
\* solutions as the call leaves them; kept and changed are the orders in
\* which the two sets of keys are traversed
prune_bad_adduct_branches(solutions, kept, changed) ==
    LET st == CaseLoop([objs |-> solutions,
                        key_map |-> _build_key_map(solutions),
                        updated |-> {}], 1)
    IN  [out |-> ChromatogramFilter(Members(st, kept) \o Members(st, changed)),
         solutions |-> st.objs,
         updated |-> st.updated]

\* The keys prune_bad_adduct_branches marks updated
UpdatedKeys(solutions) ==
    CaseLoop([objs |-> solutions, key_map |-> _build_key_map(solutions),
              updated |-> {}], 1).updated

MaxPruned == 3

DoubleSodium == 104597840
PruneMasses == {100000000, 102298920, DoubleSodium}
PrunePool == {SpanChromatogram(m, s, 1) : m \in PruneMasses, s \in JoinSpans}
PruneScores == {3, 9}

NoPruned == [out |-> <<>>, solutions |-> <<>>, updated |-> {}]

PruneInit ==
    /\ \E s \in SeqsUpTo(PrunePool, MaxPruned) :
          /\ Injective(s)
          /\ \A a, b \in Range(s) :
                (a # b /\ key(a) = key(b)) => ~span_overlap(a, b)
          /\ LET joined == join_mass_shifted(ChromatogramFilter(s), <<Sodium>>)
             IN  /\ ~joined.raised
                 /\ \E scores \in [1..Len(joined.out) -> PruneScores] :
                       pr_solutions = [i \in 1..Len(joined.out) |->
                                          ChromatogramSolution(joined.out[i], scores[i])]
    /\ pr_result = NoPruned
    /\ pr_pc = "new"

PruneBadAdductBranches ==
    /\ pr_pc = "new"
    /\ LET keys == DOMAIN _build_key_map(pr_solutions)
           updated == UpdatedKeys(pr_solutions)
       IN  \E kept \in Perms(keys \ updated), changed \in Perms(updated) :
              pr_result' = prune_bad_adduct_branches(pr_solutions, kept, changed)
    /\ pr_pc' = "done"
    /\ UNCHANGED pr_solutions
    /\ UNCHANGED <<forest_vars, smoother_vars, graph_vars, join_vars, reverse_vars, sweep_vars, binomial_vars, massdb_vars, dispatch_vars, merger_vars, search_vars, dijkstra_vars, between_vars, reader_vars, edges_vars, cache_vars, threaded_vars, piped_vars>>

\* The solutions that hold a back-reference to the key of solution j,
\* overlap it in time and score higher
Maskers(sols, j) ==
    {i \in 1..Len(sols) \ {j} :
        /\ \E r \in Range(sols[i].chromatogram.used_as_adduct) :
              r[1] = key(sols[j].chromatogram)
        /\ span_overlap(sols[i].chromatogram, sols[j].chromatogram)
        /\ sols[i].score > sols[j].score}

\* The nodes of solution j that none of its maskers holds
MaskedNodes(sols, j) ==
    {p \in sols[j].chromatogram.nodes :
        \A i \in Maskers(sols, j) :
            <<p.scan_id, p.neutral_mass, p.intensity>>
                \notin Observations(sols[i].chromatogram)}

\* The number of back-references to the key k that chromatogram c holds
BackReferences(c, k) ==
    Cardinality({n \in 1..Len(c.used_as_adduct) : c.used_as_adduct[n][1] = k})

\* The number of solutions of key k that solution i masks
Masked(sols, i, k) ==
    Cardinality({j \in 1..Len(sols) :
                    key(sols[j].chromatogram) = k /\ i \in Maskers(sols, j)})

\* C11: for every solution C with a back-reference to the key of a solution
\* O that overlaps C in time, when C scores higher than O the output holds,
\* in place of O, O without the nodes C holds, and C no longer holds the
\* back-reference; an O no such C scores higher than is in the output as it
\* was.
C11_PruneMasksLowerScoredOwner ==
    pr_pc = "done" =>
        /\ {c.nodes : c \in Range(pr_result.out)} =
              {MaskedNodes(pr_solutions, j) : j \in 1..Len(pr_solutions)} \ {{}}
        /\ Len(pr_result.out) =
              Cardinality({j \in 1..Len(pr_solutions) : MaskedNodes(pr_solutions, j) # {}})
        /\ \A i \in 1..Len(pr_solutions) :
              \A k \in {key(pr_solutions[j].chromatogram) : j \in 1..Len(pr_solutions)} :
                  \A c \in Range(pr_result.out) :
                      c.nodes = MaskedNodes(pr_solutions, i) =>
                          BackReferences(c, k) + Masked(pr_solutions, i, k)
                              <= BackReferences(pr_solutions[i].chromatogram, k)

\* Two nodes of chromatogram c observe the same scan differently
HoldsDuplicate(c) ==
    \E p, q \in c.nodes :
        /\ p.scan_id = q.scan_id
        /\ <<p.neutral_mass, p.intensity>> # <<q.neutral_mass, q.intensity>>

\* C12: a DuplicateNodeError of merge leaves join_mass_shifted as an error
\* naming the chromatogram being extended (original), the matched
\* chromatogram (to_add), the chromatogram accumulated so far (accumulated)
\* and the adduct, and no collection is returned; a call that returns has
\* one chromatogram for each given one and merged no duplicate node.
C12_DuplicateNodeErrorPropagates ==
    jm_pc = "done" =>
        IF jm_result.raised
        THEN /\ jm_result.out = <<>>
             /\ \E i, m \in 1..Len(jm_chromatograms), j \in 1..Len(jm_adducts) :
                   LET error == jm_result.error
                   IN  /\ Observations(error.original) = Observations(jm_chromatograms[i])
                       /\ error.original.neutral_mass = jm_chromatograms[i].neutral_mass
                       /\ error.adduct = jm_adducts[j]
                       /\ error.to_add.nodes = jm_chromatograms[m].nodes
                       /\ WithinTolerance(error.to_add.neutral_mass,
                              error.original.neutral_mass + error.adduct.mass)
                       /\ error.original.nodes \subseteq error.accumulated.nodes
                       /\ span_overlap(error.accumulated, error.to_add)
                       /\ DuplicateNode(error.accumulated, error.to_add)
        ELSE /\ Len(jm_result.out) = Len(jm_chromatograms)
             /\ \A c \in Range(jm_result.out) : ~HoldsDuplicate(c)
             /\ jm_result.error = NoError

C12_Witness ==
    /\ jm_pc = "done"
    /\ jm_result.raised
    /\ jm_result.error.adduct = Ammonium
    /\ jm_result.error.accumulated.adducts = <<Sodium>>
    /\ jm_result.error.original.neutral_mass = 100000000

-----------------------------------------------------------------------------
(* Reverse adduct search: reverse_adduction_search and                     *)
(* ChromatogramMatcher.reverse_adduct_search of trace.py.  A structure of  *)
(* the database is a record of its name (its serialized composition) and   *)
(* its mass.                                                               *)

\* database.search_mass_ppm(mass, mass_error_tolerance): the structures
\* within tolerance of mass
search_mass_ppm(database, mass) ==
    SelectSeq(database, LAMBDA r : Abs(r.mass - mass) <= mass \div error_tolerance_den)

\* chromatogram_type(match): an empty chromatogram of that composition
chromatogram_type(match) ==
    [composition |-> match.name, nodes |-> {},
     neutral_mass |-> match.mass, most_abundant_member |-> 0,
     used_as_adduct |-> <<>>, adducts |-> <<>>]

\* chroma.bisect_adduct(Unmodified)[0]: the nodes of type Unmodified
bisect_adduct(chroma) ==
    [chroma EXCEPT !.nodes = {p \in chroma.nodes : p.node_type = Unmodified}]

\* The loop over the matches of one adduct, from the n-th on
RECURSIVE MatchLoop(_, _, _, _, _, _)
MatchLoop(st, chroma, adduct, matches, excluded, n) ==
    IF n > Len(matches) \/ st.raised THEN st
    ELSE LET match == matches[n]
             name == match.name
         IN  IF name \in excluded
             THEN MatchLoop([st EXCEPT !.exclude = TRUE],
                            chroma, adduct, matches, excluded, n + 1)
             ELSE
               LET chroma_to_update ==
                       IF name \in DOMAIN st.new_members
                       THEN st.new_members[name]
                       ELSE chromatogram_type(match)
                   part == bisect_adduct(chroma)
               IN  IF DuplicateNode(chroma_to_update, part)
                   THEN [st EXCEPT !.raised = TRUE]
                   ELSE MatchLoop(
                          [st EXCEPT
                             !.new_members =
                                 [k \in DOMAIN st.new_members \cup {name} |->
                                     IF k = name
                                     THEN merge(chroma_to_update, part, adduct.name)
                                     ELSE st.new_members[k]],
                             !.matched = TRUE],
                          chroma, adduct, matches, excluded, n + 1)

\* The loop over the adducts for one candidate, from the j-th on
RECURSIVE ReverseAdductLoop(_, _, _, _, _, _)
ReverseAdductLoop(st, chroma, adducts, database, excluded, j) ==
    IF j > Len(adducts) \/ st.raised THEN st
    ELSE ReverseAdductLoop(
             MatchLoop(st, chroma, adducts[j],
                       search_mass_ppm(database, chroma.neutral_mass - adducts[j].mass),
                       excluded, 1),
             chroma, adducts, database, excluded, j + 1)

\* The loop over the candidate chromatograms, from the i-th on
RECURSIVE CandidateLoop(_, _, _, _, _, _)
CandidateLoop(st, candidates, adducts, database, excluded, i) ==
    IF i > Len(candidates) \/ st.raised THEN st
    ELSE LET r == ReverseAdductLoop([st EXCEPT !.matched = FALSE, !.exclude = FALSE],
                                    candidates[i], adducts, database, excluded, 1)
         IN  CandidateLoop(
                 IF ~r.raised /\ ~r.matched /\ ~r.exclude
                 THEN [r EXCEPT !.unmatched = Append(@, candidates[i])]
                 ELSE r,
                 candidates, adducts, database, excluded, i + 1)

\* The values of a dict in the order names of its keys
DictValues(d, names) == [p \in 1..Len(names) |-> d[names[p]]]

\* What both searches do once the assigned chromatograms are set aside:
\* kept holds the assigned chromatograms that go to the output
ReverseSearch(collection, adducts, database, kept, order) ==
    LET excluded == {collection[i].composition : i \in 1..Len(collection)} \ {NoComposition}
        candidates == SelectSeq(collection, LAMBDA c : c.composition = NoComposition)
        st == CandidateLoop([new_members |-> <<>>, unmatched |-> <<>>,
                             matched |-> FALSE, exclude |-> FALSE, raised |-> FALSE],
                            candidates, adducts, database, excluded, 1)
    IN  [raised |-> st.raised,
         out |-> IF st.raised THEN <<>>
                 ELSE ChromatogramFilter(
                          kept \o DictValues(st.new_members,
                                     SelectSeq(order, LAMBDA k : k \in DOMAIN st.new_members))
                               \o st.unmatched)]

\* exclude_compositions[chroma.composition] = chroma, for each assigned
\* chromatogram in turn: the last chromatogram of each composition
ExcludeCompositions(collection) ==
    [k \in {collection[i].composition : i \in 1..Len(collection)} \ {NoComposition} |->
        collection[SetMax({i \in 1..Len(collection) : collection[i].composition = k})]]

\* reverse_adduction_search(chromatograms, adducts, mass_error_tolerance,
\* database); order is the order in which the dicts are traversed
reverse_adduction_search(collection, adducts, database, order) ==
    LET exclude_compositions == ExcludeCompositions(collection)
    IN  ReverseSearch(collection, adducts, database,
            DictValues(exclude_compositions,
                SelectSeq(order, LAMBDA k : k \in DOMAIN exclude_compositions)),
            order)

\* ChromatogramMatcher.reverse_adduct_search(chromatograms, adducts):
\* exclude_compositions holds the list of the chromatograms of each composition
reverse_adduct_search(collection, adducts, database, order) ==
    LET groups == [p \in 1..Len(order) |->
                      SelectSeq(collection, LAMBDA c : c.composition = order[p])]
        RECURSIVE Flatten(_)
        Flatten(s) == IF s = <<>> THEN <<>> ELSE Head(s) \o Flatten(Tail(s))
    IN  ReverseSearch(collection, adducts, database, Flatten(groups), order)

MaxReversed == 3

StructureA == [name |-> "A", mass |-> 100000000]
StructureB == [name |-> "B", mass |-> 100000050]
StructureC == [name |-> "C", mass |-> 120000000]
Databases == {<<>>, <<StructureA>>, <<StructureA, StructureB>>, <<StructureB>>,
              <<StructureA, StructureB, StructureC>>, <<StructureC>>}

AssignedChromatogram(structure, span) ==
    [SpanChromatogram(structure.mass, span, 1) EXCEPT !.composition = structure.name]

ReversePool ==
    {AssignedChromatogram(StructureA, s) : s \in {<<5, 15>>, <<16, 20>>}}
    \cup {SpanChromatogram(m, s, 1) :
             m \in {102298920, 101702655, 150000000}, s \in {<<5, 15>>, <<13, 18>>}}

NoReversed == [raised |-> FALSE, out |-> <<>>]

ReverseInit ==
    /\ \E s \in SeqsUpTo(ReversePool, MaxReversed) :
          /\ Injective(s)
          /\ rv_chromatograms = ChromatogramFilter(s)
    /\ rv_adducts \in {<<Sodium>>, <<Sodium, Ammonium>>}
    /\ rv_database \in Databases
    /\ rv_result = NoReversed
    /\ rv_pc = "new"

ReverseAdductionSearch ==
    /\ rv_pc = "new"
    /\ \E order \in Perms({"A", "B", "C"}) :
          rv_result' = reverse_adduction_search(rv_chromatograms, rv_adducts,
                                                rv_database, order)
    /\ rv_pc' = "function"
    /\ UNCHANGED <<rv_chromatograms, rv_adducts, rv_database>>
    /\ UNCHANGED <<forest_vars, smoother_vars, graph_vars, join_vars, prune_vars, sweep_vars, binomial_vars, massdb_vars, dispatch_vars, merger_vars, search_vars, dijkstra_vars, between_vars, reader_vars, edges_vars, cache_vars, threaded_vars, piped_vars>>

ReverseAdductSearch ==
    /\ rv_pc = "new"
    /\ \E order \in Perms({"A", "B", "C"}) :
          rv_result' = reverse_adduct_search(rv_chromatograms, rv_adducts,
                                             rv_database, order)
    /\ rv_pc' = "method"
    /\ UNCHANGED <<rv_chromatograms, rv_adducts, rv_database>>
    /\ UNCHANGED <<forest_vars, smoother_vars, graph_vars, join_vars, prune_vars, sweep_vars, binomial_vars, massdb_vars, dispatch_vars, merger_vars, search_vars, dijkstra_vars, between_vars, reader_vars, edges_vars, cache_vars, threaded_vars, piped_vars>>

\* C13: no chromatogram given to the reverse adduct search is lost: one
\* with a composition is in the output, and one without is in the output
\* as it was (unmatched) or its unmodified nodes are held by an output
\* chromatogram that has a composition.
C13_NoChromatogramLost ==
    (rv_pc \in {"function", "method"} /\ ~rv_result.raised) =>
        \A i \in 1..Len(rv_chromatograms) :
            LET c == rv_chromatograms[i]
            IN  IF c.composition # NoComposition
                THEN c \in Range(rv_result.out)
                ELSE \/ c \in Range(rv_result.out)
                     \/ \E o \in Range(rv_result.out) :
                           /\ o.composition # NoComposition
                           /\ Observations(bisect_adduct(c)) \subseteq Observations(o)

-----------------------------------------------------------------------------
(* The sweeps of GlycomeModel (composition_distribution_model.py):         *)
(* find_optimal_lambda and find_threshold_and_lambda.  The graphs are      *)
(* objects of a heap, so that a sweep working on the network itself rather *)
(* than on a clone would show.  The numeric results are not modelled: a    *)
(* grid point either yields a value or a numpy.linalg call raises there.   *)

\* CompositionGraphNode.clone
CompositionGraphNode_clone(node) ==
    CompositionGraphNode(node.composition, node.index, score(node))

\* The loop of CompositionGraph.clone over the edges
RECURSIVE CloneEdges(_, _, _)
CloneEdges(G, source, edges) ==
    IF edges = {} THEN G
    ELSE LET edge == CHOOSE x \in edges : TRUE
             n1 == G.nodes[index(source, edge.node1) + 1].composition
             n2 == G.nodes[index(source, edge.node2) + 1].composition
             copy == CompositionGraphEdge(n1, n2, edge.order, edge.weight)
         IN  CloneEdges([Attach(G, copy) EXCEPT !.edges = EdgeSet_add(@, copy)],
                        source, edges \ {edge})

\* CompositionGraph.clone: the graph it returns
CompositionGraph_clone(G) ==
    LET nodes == [i \in 1..Len(G.nodes) |-> CompositionGraphNode_clone(G.nodes[i])]
        names == {nodes[i].composition : i \in 1..Len(nodes)}
    IN  CloneEdges([nodes |-> nodes,
                    node_map |-> [c \in names |-> c],
                    edges |-> EdgeSet,
                    node_edges |-> [c \in names |-> EdgeSet],
                    error |-> "none"],
                   G, EdgesOf(G.edges))

\* A sweep working on the network itself
clone_aliased(heap, ref) == [heap |-> heap, ref |-> ref]

\* network.clone(): a new object of the heap
clone(heap, ref) ==
    [heap |-> Append(heap, CompositionGraph_clone(heap[ref])), ref |-> Len(heap) + 1]

\* assign_network(network.clone(), observed): observed gives the score of
\* each composition that was observed
assign_network(G, observed) ==
    LET network0 == CompositionGraph_clone(G)
    IN  [network0 EXCEPT
            !.nodes = [i \in 1..Len(network0.nodes) |->
                          [network0.nodes[i] EXCEPT !._temp_score =
                              IF network0.nodes[i].composition \in DOMAIN observed
                              THEN observed[network0.nodes[i].composition] ELSE 0]]]

SweepLimit == 5

\* for node in missed: network.remove_node(node, limit=5): the graphs it
\* can leave
RECURSIVE RemoveMissed(_, _, _)
RemoveMissed(Gs, missed, i) ==
    IF i > Len(missed) THEN Gs
    ELSE RemoveMissed(
             UNION {IF G.error # "none" THEN {G}
                    ELSE remove_node(G, missed[i], TRUE, SweepLimit) : G \in Gs},
             missed, i + 1)

\* The nodes with node.score < threshold, and the scores of the others
Missed(G, threshold) ==
    LET low == SelectSeq(G.nodes, LAMBDA node : score(node) < threshold)
    IN  [i \in 1..Len(low) |-> low[i].composition]

Obs(G, threshold) ==
    LET high == SelectSeq(G.nodes, LAMBDA node : ~(score(node) < threshold))
    IN  [i \in 1..Len(high) |-> score(high[i])]

\* The loop over lambda_values of trial t from the k-th value on: press
\* holds the grid points that gave a value
RECURSIVE LambdaLoop(_, _, _, _, _)
LambdaLoop(failing, t, lambdas, k, press) ==
    IF k > lambdas THEN [raised |-> FALSE, press |-> press]
    ELSE IF <<t, k>> \in failing THEN [raised |-> TRUE, press |-> press]
    ELSE LambdaLoop(failing, t, lambdas, k + 1, Append(press, k))

DefaultThreshold == 1000

\* GlycomeModel.find_optimal_lambda(rho, lambda_max, step, threshold): the
\* heaps and results it can leave
find_optimal_lambda(heap, self_network, lambdas, threshold, failing) ==
    LET c == clone(heap, self_network)
        network0 == c.heap[c.ref]
        loop == LambdaLoop(failing, 1, lambdas, 1, <<>>)
    IN  {[heap |-> [c.heap EXCEPT ![c.ref] = G],
          raised |-> loop.raised,
          solutions |-> IF loop.raised THEN <<>>
                        ELSE <<[threshold |-> threshold, press |-> loop.press,
                                network |-> c.ref]>>]
         : G \in RemoveMissed({network0}, Missed(network0, threshold), 1)}

\* np.arange(start, limit, step)
arange(start, limit, step) ==
    [k \in 1..(IF limit > start THEN (limit - start + step - 1) \div step ELSE 0) |->
        start + (k - 1) * step]

\* The loop of find_threshold_and_lambda over the thresholds, from the
\* t-th on: the heaps and results it can leave
RECURSIVE ThresholdLoop(_, _, _, _, _, _, _)
ThresholdLoop(heap, current_network, thresholds, t, lambdas, failing, solutions) ==
    IF t > Len(thresholds)
    THEN {[heap |-> heap, raised |-> FALSE, solutions |-> solutions]}
    ELSE
      LET c == clone(heap, current_network)
          network0 == c.heap[c.ref]
          threshold == thresholds[t]
          loop == LambdaLoop(failing, t, lambdas, 1, <<>>)
      IN  IF Len(Obs(network0, threshold)) = 0
          THEN {[heap |-> c.heap, raised |-> FALSE, solutions |-> solutions]}
          ELSE UNION {
                 IF loop.raised
                 THEN {[heap |-> [c.heap EXCEPT ![c.ref] = G],
                        raised |-> TRUE, solutions |-> <<>>]}
                 ELSE ThresholdLoop([c.heap EXCEPT ![c.ref] = G], c.ref,
                                    thresholds, t + 1, lambdas, failing,
                                    Append(solutions,
                                           [threshold |-> threshold,
                                            press |-> loop.press,
                                            network |-> c.ref]))
                 : G \in RemoveMissed({network0}, Missed(network0, threshold), 1)}

\* The scores of the observed nodes of self.network
S0(G) ==
    {score(G.nodes[i]) : i \in {j \in 1..Len(G.nodes) :
                                   ~(G.nodes[j]._temp_score < DefaultThreshold)}}

\* GlycomeModel.find_threshold_and_lambda(rho, lambda_max, lambda_step,
\* threshold_start, threshold_step)
find_threshold_and_lambda(heap, self_network, lambdas, threshold_start, threshold_step, failing) ==
    LET limit == SetMax(S0(heap[self_network]))
        start == SetMax({SetMin(S0(heap[self_network])), threshold_start})
        c == clone(heap, self_network)
    IN  ThresholdLoop(c.heap, c.ref, arange(start, limit, threshold_step),
                      1, lambdas, failing, <<>>)

MaxLambdas == 2
MaxMissing == 2

\* GlycomeModel._network and GlycomeModel.network
_network == 1
self_network == 2

ThresholdStep == 2000000
ObservedScores == {2000000, 5000000}
FailingSets == {{}} \cup {{p} : p \in (1..2) \X (1..MaxLambdas)}

NoSweep == [raised |-> FALSE, solutions |-> <<>>]

\* GlycomeModel(observed_compositions, network)
SweepInit ==
    /\ \E compositions \in GraphInputs, degree \in Degrees :
          LET G == create_edges(create_nodes(compositions), degree, "composition_distance")
          IN  \E seen \in SUBSET Range(compositions) :
                 /\ seen # {}
                 /\ Cardinality(Range(compositions) \ seen) <= MaxMissing
                 /\ \E observed \in [seen -> ObservedScores] :
                       gm_heap = <<G, assign_network(G, observed)>>
    /\ gm_failing \in FailingSets
    /\ gm_result = NoSweep
    /\ gm_pc = "new"

FindOptimalLambda ==
    /\ gm_pc = "new"
    /\ \E r \in find_optimal_lambda(gm_heap, self_network, MaxLambdas,
                                    DefaultThreshold, gm_failing) :
          /\ gm_heap' = r.heap
          /\ gm_result' = [raised |-> r.raised, solutions |-> r.solutions]
    /\ gm_pc' = "find_optimal_lambda"
    /\ UNCHANGED gm_failing
    /\ UNCHANGED <<forest_vars, smoother_vars, graph_vars, join_vars, prune_vars,
                   reverse_vars, binomial_vars, massdb_vars, dispatch_vars, merger_vars, search_vars, dijkstra_vars, between_vars, reader_vars, edges_vars, cache_vars, threaded_vars, piped_vars>>

FindThresholdAndLambda ==
    /\ gm_pc = "new"
    /\ \E r \in find_threshold_and_lambda(gm_heap, self_network, MaxLambdas, 0,
                                          ThresholdStep, gm_failing) :
          /\ gm_heap' = r.heap
          /\ gm_result' = [raised |-> r.raised, solutions |-> r.solutions]
    /\ gm_pc' = "find_threshold_and_lambda"
    /\ UNCHANGED gm_failing
    /\ UNCHANGED <<forest_vars, smoother_vars, graph_vars, join_vars, prune_vars,
                   reverse_vars, binomial_vars, massdb_vars, dispatch_vars, merger_vars, search_vars, dijkstra_vars, between_vars, reader_vars, edges_vars, cache_vars, threaded_vars, piped_vars>>

\* C14: a sweep leaves the network of the model and the network given to
\* its constructor as they were (nodes, indices, scores, edges): every
\* remove_node is done on a clone.
C14_SweepsWorkOnClones ==
    [][gm_pc' # gm_pc =>
          /\ gm_heap'[_network] = gm_heap[_network]
          /\ gm_heap'[self_network] = gm_heap[self_network]
      ]_vars

C14_Witness ==
    /\ gm_pc = "find_threshold_and_lambda"
    /\ Len(gm_heap) >= 4
    /\ Len(gm_heap[4].nodes) < Len(gm_heap[3].nodes)
    /\ Len(gm_heap[3].nodes) = Len(gm_heap[self_network].nodes)
    /\ gm_heap[4].edges # gm_heap[self_network].edges

\* The grid points of trial t at which no numpy.linalg call raises
Passing(t) == SelectSeq([k \in 1..MaxLambdas |-> k], LAMBDA k : <<t, k>> \notin gm_failing)

\* C15: a sweep in which a numpy.linalg call raises at a grid point returns
\* all the same, with the values of the other grid points.
C15_FailingPointSkipped ==
    gm_pc \in {"find_optimal_lambda", "find_threshold_and_lambda"} =>
        /\ ~gm_result.raised
        /\ \A t \in 1..Len(gm_result.solutions) :
              gm_result.solutions[t].press = Passing(t)

-----------------------------------------------------------------------------
(* BinomialSpectrumMatcher._binomial_score                                 *)
(* (tandem/glycopeptide/scoring/binomial_score.py).  A probability is a    *)
(* fraction [num, den].  A score -log10(a) - log10(b) is kept as the pair  *)
(* of a and b; it is infinite when one of them is zero.                    *)

RECURSIVE Power(_, _)
Power(x, n) == IF n = 0 THEN 1 ELSE x * Power(x, n - 1)

\* scipy.misc.comb(n, i, exact=True)
RECURSIVE comb(_, _)
comb(n, i) ==
    IF i < 0 \/ i > n THEN 0
    ELSE IF i = 0 \/ i = n THEN 1
    ELSE comb(n - 1, i - 1) + comb(n - 1, i)

\* The loop of binomial_tail_probability over range(i, n): the sum of
\* comb(n, i) * p ** i * (1 - p) ** (n - i), as a numerator over p.den ** n
RECURSIVE TailSum(_, _, _)
TailSum(n, i, p) ==
    IF i >= n THEN 0
    ELSE comb(n, i) * Power(p.num, i) * Power(p.den - p.num, n - i)
         + TailSum(n, i + 1, p)

\* binomial_tail_probability(n, k, p)
binomial_tail_probability(n, k, p) ==
    [num |-> TailSum(n, k, p), den |-> Power(p.den, n)]

\* binomial_fragments_matched: p = exp(log(ion_tolerance) + log(2) +
\* log(count_product_ion_matches) - log(precursor_mass)), ratio being
\* precursor_mass / (2 * ion_tolerance)
binomial_fragments_matched(total_product_ion_count, count_product_ion_matches, ratio) ==
    binomial_tail_probability(total_product_ion_count, count_product_ion_matches,
                              [num |-> count_product_ion_matches, den |-> ratio])

Half == [num |-> 1, den |-> 2]
One == [num |-> 1, den |-> 1]

\* exp(prod): the product of the counts that are not zero
RECURSIVE ProductNonZero(_, _)
ProductNonZero(counts, j) ==
    IF j > Len(counts) THEN One
    ELSE LET rest == ProductNonZero(counts, j + 1)
         IN  IF counts[j].num = 0 THEN rest
             ELSE [num |-> counts[j].num * rest.num, den |-> counts[j].den * rest.den]

\* binomial_intensity(peak_list, matched_peaks, total_product_ion_count):
\* above[j] is (matched_intensities > m_j).sum() for the j-th median
binomial_intensity(matched, total_product_ion_count, above) ==
    IF matched = 0 THEN One
    ELSE ProductNonZero(
             <<binomial_tail_probability(total_product_ion_count, above[1], Half),
               binomial_tail_probability(above[1], above[2], Half),
               binomial_tail_probability(above[2], above[3], Half),
               binomial_tail_probability(above[3], above[4], Half)>>, 1)

\* 1e-170
Epsilon == [num |-> 1, den |-> 2147483647]

\* BinomialSpectrumMatcher._binomial_score
_binomial_score(n_theoretical, matches, above, ratio) ==
    LET fragment_match_component ==
            binomial_fragments_matched(n_theoretical, matches, ratio)
        computed == binomial_intensity(matches, n_theoretical, above)
        intensity_component == IF computed.num = 0 THEN Epsilon ELSE computed
    IN  [intensity_component |-> intensity_component,
         fragment_match_component |-> fragment_match_component,
         isinf |-> intensity_component.num = 0 \/ fragment_match_component.num = 0]

MaxTheoretical == 4

Ratios == {8, 10}

NoScore == [intensity_component |-> One, fragment_match_component |-> One, isinf |-> FALSE]

\* BinomialSpectrumMatcher after match(): up to one matched glycan fragment
\* is not among the n_theoretical fragments
BinomialInit ==
    /\ bs_n_theoretical \in 1..MaxTheoretical
    /\ bs_matches \in 0..(bs_n_theoretical + 1)
    /\ bs_above \in {a \in [1..4 -> 0..(MaxTheoretical + 1)] :
                        /\ a[1] <= bs_matches
                        /\ \A j \in 1..3 : a[j + 1] <= a[j]}
    /\ bs_ratio \in Ratios
    /\ bs_score = NoScore
    /\ bs_pc = "new"

\* BinomialSpectrumMatcher.calculate_score
CalculateScore ==
    /\ bs_pc = "new"
    /\ bs_score' = _binomial_score(bs_n_theoretical, bs_matches, bs_above, bs_ratio)
    /\ bs_pc' = "done"
    /\ UNCHANGED <<bs_n_theoretical, bs_matches, bs_above, bs_ratio>>
    /\ UNCHANGED <<forest_vars, smoother_vars, graph_vars, join_vars, prune_vars,
                   reverse_vars, sweep_vars, massdb_vars, dispatch_vars, merger_vars, search_vars, dijkstra_vars, between_vars, reader_vars, edges_vars, cache_vars, threaded_vars, piped_vars>>

\* C16: the score of _binomial_score is finite: neither component whose
\* logarithm is taken is zero, a zero component having been replaced by a
\* small positive number (as when every theoretical fragment is matched).
C16_ScoreFinite ==
    bs_pc = "done" =>
        /\ bs_score.intensity_component.num > 0
        /\ bs_score.fragment_match_component.num > 0
        /\ ~bs_score.isinf

-----------------------------------------------------------------------------
(* MassDatabase and NeutralMassDatabase (database/mass_collection.py).     *)
(* In this section a mass is an integer in units of 1e-6 Da, the default   *)
(* error_tolerance of search_binary, and a structure is named by its       *)
(* position in the list.                                                   *)

\* error_tolerance=1e-6 of search_binary
search_binary_tolerance == 1

\* The loop of search_binary: the index it returns
RECURSIVE SearchBinaryLoop(_, _, _, _)
SearchBinaryLoop(structures, mass, lo, hi) ==
    LET mid == (hi + lo) \div 2
        err == structures[mid + 1] - mass
    IN  IF Abs(err) <= search_binary_tolerance THEN mid
        ELSE IF hi - lo = 1 THEN mid
        ELSE IF err > 0 THEN SearchBinaryLoop(structures, mass, lo, mid)
        ELSE SearchBinaryLoop(structures, mass, mid, hi)

\* MassDatabase.search_binary(mass) of a collection that is not empty
search_binary(structures, mass) == SearchBinaryLoop(structures, mass, 0, Len(structures))

\* self[lo:hi] of Python for lo, hi >= 0: the positions of the slice
Slice(structures, lo, hi) ==
    PyRange(lo, IF hi > Len(structures) THEN Len(structures) ELSE hi)

\* MassDatabase.search_mass(mass, error_tolerance): the positions (from 0)
\* of the structures it returns
search_mass(structures, mass, error_tolerance) ==
    IF Len(structures) = 0 THEN <<>>
    ELSE LET lo_mass == mass - error_tolerance
             hi_mass == mass + error_tolerance
             lo == search_binary(structures, lo_mass)
             hi == search_binary(structures, hi_mass) + 1
         IN  SelectSeq(Slice(structures, lo, hi),
                       LAMBDA i : lo_mass <= structures[i + 1] /\ structures[i + 1] <= hi_mass)

\* NeutralMassDatabase.search_binary and search_mass: the same code over
\* mass_getter(structure)
NeutralMassDatabase_search_binary(structures, mass) ==
    SearchBinaryLoop(structures, mass, 0, Len(structures))

NeutralMassDatabase_search_mass(structures, mass, error_tolerance) ==
    IF Len(structures) = 0 THEN <<>>
    ELSE LET lo_mass == mass - error_tolerance
             hi_mass == mass + error_tolerance
             lo == NeutralMassDatabase_search_binary(structures, lo_mass)
             hi == NeutralMassDatabase_search_binary(structures, hi_mass) + 1
         IN  SelectSeq(Slice(structures, lo, hi),
                       LAMBDA i : lo_mass <= structures[i + 1] /\ structures[i + 1] <= hi_mass)

MaxStructures == 4

StructureMasses == {1000, 1001, 1010, 1020}
QueryMasses == {1000, 1005, 1010, 1015}
QueryTolerances == {0, 5, 10}

NoQuery == [mass |-> 0, error_tolerance |-> 0]

\* self.structures sorted by mass
MassdbInit ==
    /\ md_structures \in {s \in UNION {[1..n -> StructureMasses] : n \in 1..MaxStructures} :
                             \A i \in 1..(Len(s) - 1) : s[i] <= s[i + 1]}
    /\ md_query \in [mass : QueryMasses, error_tolerance : QueryTolerances]
    /\ md_result = <<>>
    /\ md_pc = "new"

MassDatabaseSearchMass ==
    /\ md_pc = "new"
    /\ md_result' = search_mass(md_structures, md_query.mass, md_query.error_tolerance)
    /\ md_pc' = "MassDatabase"
    /\ UNCHANGED <<md_structures, md_query>>
    /\ UNCHANGED <<forest_vars, smoother_vars, graph_vars, join_vars, prune_vars,
                   reverse_vars, sweep_vars, binomial_vars, dispatch_vars, merger_vars, search_vars, dijkstra_vars, between_vars, reader_vars, edges_vars, cache_vars, threaded_vars, piped_vars>>

NeutralMassDatabaseSearchMass ==
    /\ md_pc = "new"
    /\ md_result' = NeutralMassDatabase_search_mass(md_structures, md_query.mass,
                                                    md_query.error_tolerance)
    /\ md_pc' = "NeutralMassDatabase"
    /\ UNCHANGED <<md_structures, md_query>>
    /\ UNCHANGED <<forest_vars, smoother_vars, graph_vars, join_vars, prune_vars,
                   reverse_vars, sweep_vars, binomial_vars, dispatch_vars, merger_vars, search_vars, dijkstra_vars, between_vars, reader_vars, edges_vars, cache_vars, threaded_vars, piped_vars>>

\* C17: search_mass returns exactly the stored structures whose mass m has
\* mass - error_tolerance <= m <= mass + error_tolerance, each once, also
\* when several structures have the same mass or a mass on a bound.
C17_SearchMassExact ==
    md_pc \in {"MassDatabase", "NeutralMassDatabase"} =>
        /\ Range(md_result) =
              {i \in 0..(Len(md_structures) - 1) :
                  /\ md_query.mass - md_query.error_tolerance <= md_structures[i + 1]
                  /\ md_structures[i + 1] <= md_query.mass + md_query.error_tolerance}
        /\ Injective(md_result)

-----------------------------------------------------------------------------
(* IdentificationProcessDispatcher.process, its feeder thread and the      *)
(* workers' task (tandem/spectrum_matcher_base.py).  A hit is a number, a  *)
(* queue is a sequence.  queue.get(True, timeout) raises the empty         *)
(* exception when the queue is empty; what the handler then reads is read  *)
(* in a later step.                                                        *)

MaxHits == 2
MaxWorkers == 2
MaxStale == 2

ScanIds == {1, 2}
Unbound == 0

dispatch_others ==
    <<forest_vars, smoother_vars, graph_vars, join_vars, prune_vars,
      reverse_vars, sweep_vars, binomial_vars, massdb_vars, merger_vars,
      search_vars,
      dijkstra_vars,
      between_vars,
      reader_vars,
      edges_vars,
      cache_vars,
      threaded_vars,
      piped_vars>>

\* process: the feeder thread is started, the pool is created
DispatchInit ==
    /\ dp_hit_to_scan \in [1..MaxHits -> SUBSET ScanIds \ {{}}]
    /\ dp_fed = 0
    /\ dp_input_queue = <<>>
    /\ dp_output_queue = <<>>
    /\ dp_done_event = FALSE
    /\ dp_workers = [w \in 1..MaxWorkers |->
                        [pc |-> "get", structure |-> Unbound, _work_complete |-> FALSE]]
    /\ dp_i = 0
    /\ dp_scan_solution_map = [s \in ScanIds |-> <<>>]
    /\ dp_pc = "get"
    /\ dp_stale = 0

\* feeder: self.input_queue.put((hit_map[hit_id], [s.id for s in scan_ids]))
FeederPut ==
    /\ dp_pc # "idle"
    /\ dp_fed < MaxHits
    /\ dp_fed' = dp_fed + 1
    /\ dp_input_queue' = Append(dp_input_queue, dp_fed + 1)
    /\ UNCHANGED <<dp_hit_to_scan, dp_output_queue, dp_done_event, dp_workers, dp_i,
                   dp_scan_solution_map, dp_pc, dp_stale>>
    /\ UNCHANGED dispatch_others

\* feeder: self.done_event.set()
FeederDone ==
    /\ dp_pc # "idle"
    /\ dp_fed = MaxHits
    /\ ~dp_done_event
    /\ dp_done_event' = TRUE
    /\ UNCHANGED <<dp_hit_to_scan, dp_fed, dp_input_queue, dp_output_queue, dp_workers,
                   dp_i, dp_scan_solution_map, dp_pc, dp_stale>>
    /\ UNCHANGED dispatch_others

\* task: structure, scan_ids = self.input_queue.get(True, 5)
WorkerGet ==
    /\ \E w \in DOMAIN dp_workers :
          /\ dp_workers[w].pc = "get"
          /\ dp_input_queue # <<>>
          /\ dp_workers' = [dp_workers EXCEPT ![w].pc = "evaluate",
                                               ![w].structure = Head(dp_input_queue)]
          /\ dp_input_queue' = Tail(dp_input_queue)
    /\ UNCHANGED <<dp_hit_to_scan, dp_fed, dp_output_queue, dp_done_event, dp_i,
                   dp_scan_solution_map, dp_pc, dp_stale>>
    /\ UNCHANGED dispatch_others

\* task: the get raises QueueEmptyException
WorkerTimeout ==
    /\ \E w \in DOMAIN dp_workers :
          /\ dp_workers[w].pc = "get"
          /\ dp_input_queue = <<>>
          /\ dp_workers' = [dp_workers EXCEPT ![w].pc = "except"]
    /\ UNCHANGED <<dp_hit_to_scan, dp_fed, dp_input_queue, dp_output_queue,
                   dp_done_event, dp_i, dp_scan_solution_map, dp_pc, dp_stale>>
    /\ UNCHANGED dispatch_others

\* task: the except clause.  With done_event set the loop ends and
\* _work_complete is set; otherwise control goes on to the statements after
\* the try, with the structure of the iteration before (an
\* UnboundLocalError when there was none, which ends the worker).
WorkerCheck ==
    /\ \E w \in DOMAIN dp_workers :
          /\ dp_workers[w].pc = "except"
          /\ IF dp_done_event
             THEN /\ dp_workers' = [dp_workers EXCEPT ![w].pc = "finished",
                                                      ![w]._work_complete = TRUE]
                  /\ UNCHANGED dp_stale
             ELSE IF dp_workers[w].structure = Unbound
             THEN /\ dp_workers' = [dp_workers EXCEPT ![w].pc = "UnboundLocalError"]
                  /\ UNCHANGED dp_stale
             ELSE /\ dp_stale < MaxStale
                  /\ dp_workers' = [dp_workers EXCEPT ![w].pc = "evaluate"]
                  /\ dp_stale' = dp_stale + 1
    /\ UNCHANGED <<dp_hit_to_scan, dp_fed, dp_input_queue, dp_output_queue,
                   dp_done_event, dp_i, dp_scan_solution_map, dp_pc>>
    /\ UNCHANGED dispatch_others

\* task: evaluate each scan of the structure, then pack_output: the
\* solution map is put on output_queue when it is not empty
WorkerEvaluate ==
    /\ \E w \in DOMAIN dp_workers :
          /\ dp_workers[w].pc = "evaluate"
          /\ LET structure == dp_workers[w].structure
                 self_solution_map == dp_hit_to_scan[structure]
             IN  dp_output_queue' =
                     IF self_solution_map # {}
                     THEN Append(dp_output_queue,
                                 [target |-> structure, score_map |-> self_solution_map])
                     ELSE dp_output_queue
          /\ dp_workers' = [dp_workers EXCEPT ![w].pc = "get"]
    /\ UNCHANGED <<dp_hit_to_scan, dp_fed, dp_input_queue, dp_done_event, dp_i,
                   dp_scan_solution_map, dp_pc, dp_stale>>
    /\ UNCHANGED dispatch_others

\* process: target, score_map = self.output_queue.get(True, 2) and the
\* loop that appends a SpectrumMatch for each scan id of score_map
ProcessGet ==
    /\ dp_pc = "get"
    /\ dp_output_queue # <<>>
    /\ LET out == Head(dp_output_queue)
       IN  dp_scan_solution_map' =
               [s \in ScanIds |->
                   IF s \in out.score_map
                   THEN Append(dp_scan_solution_map[s], out.target)
                   ELSE dp_scan_solution_map[s]]
    /\ dp_output_queue' = Tail(dp_output_queue)
    /\ dp_i' = dp_i + 1
    /\ UNCHANGED <<dp_hit_to_scan, dp_fed, dp_input_queue, dp_done_event, dp_workers,
                   dp_pc, dp_stale>>
    /\ UNCHANGED dispatch_others

\* process: the get raises QueueEmptyException
ProcessTimeout ==
    /\ dp_pc = "get"
    /\ dp_output_queue = <<>>
    /\ dp_pc' = "except"
    /\ UNCHANGED <<dp_hit_to_scan, dp_fed, dp_input_queue, dp_output_queue,
                   dp_done_event, dp_workers, dp_i, dp_scan_solution_map, dp_stale>>
    /\ UNCHANGED dispatch_others

\* all_workers_finished
all_workers_finished == \A w \in DOMAIN dp_workers : dp_workers[w]._work_complete

\* process: the except clause; with all workers finished and i == n the
\* loop ends and process returns scan_solution_map
ProcessCheck ==
    /\ dp_pc = "except"
    /\ dp_pc' = IF all_workers_finished /\ dp_i = MaxHits THEN "returned" ELSE "get"
    /\ UNCHANGED <<dp_hit_to_scan, dp_fed, dp_input_queue, dp_output_queue,
                   dp_done_event, dp_workers, dp_i, dp_scan_solution_map, dp_stale>>
    /\ UNCHANGED dispatch_others

\* C18: when process returns, scan_solution_map holds exactly one match for
\* each hit and each scan id of the hit: none is missing, none is there
\* twice.
C18_OneMatchPerHitAndScan ==
    dp_pc = "returned" =>
        \A s \in ScanIds : \A h \in 1..MaxHits :
            Cardinality({p \in 1..Len(dp_scan_solution_map[s]) :
                            dp_scan_solution_map[s][p] = h})
                = IF s \in dp_hit_to_scan[h] THEN 1 ELSE 0

\* C30: process returns in the end for every finite hit_to_scan: each
\* worker handles every item it takes from the input queue once and then
\* sets its work-complete event, also when a get of the worker times out
\* before the feeder has set done_event (the first get included), so that
\* the count of outputs received reaches len(hit_map) and the collection
\* loop ends.
C30_ProcessReturns ==
    /\ [](dp_stale = 0)
    /\ [](\A w \in DOMAIN dp_workers : dp_workers[w].pc # "UnboundLocalError")
    /\ <>(dp_pc = "returned")

-----------------------------------------------------------------------------
(* ChromatogramMerger.handle_new_chromatogram, one call at a time, on a    *)
(* merger constructed without chromatograms.                               *)

MaxMerged == 2

NoChromatogram == NewChromatogram(NoComposition, NoPeak)

merger_others ==
    <<forest_vars, smoother_vars, graph_vars, join_vars, prune_vars,
      reverse_vars, sweep_vars, binomial_vars, massdb_vars, dispatch_vars,
      search_vars,
      dijkstra_vars,
      between_vars,
      reader_vars,
      edges_vars,
      cache_vars,
      threaded_vars,
      piped_vars>>

\* ChromatogramMerger()
MergerInit ==
    /\ mg_chromatograms = <<>>
    /\ mg_count = 0
    /\ mg_before = <<>>
    /\ mg_new = NoChromatogram

HandleNewChromatogram ==
    /\ mg_count < MaxMerged
    /\ \E new_chromatogram \in SmootherPool \ Range(mg_chromatograms) :
          /\ mg_chromatograms' = handle_new_chromatogram(mg_chromatograms, new_chromatogram)
          /\ mg_new' = new_chromatogram
    /\ mg_before' = mg_chromatograms
    /\ mg_count' = mg_count + 1
    /\ UNCHANGED merger_others

\* The entries of the list before the call that are within error_tolerance
\* of the new chromatogram
MassCandidates ==
    {k \in 1..Len(mg_before) :
        WithinTolerance(mg_before[k].neutral_mass, mg_new.neutral_mass)}

\* The list holds every entry of before, in order, and new as one more entry
InsertedDistinct(before, after, new) ==
    \E p \in 1..Len(after) :
        /\ after[p] = new
        /\ Len(after) = Len(before) + 1
        /\ \A k \in 1..Len(before) : after[IF k < p THEN k ELSE k + 1] = before[k]

\* C19: handle_new_chromatogram merges the new chromatogram into an entry
\* only if that entry is within mass tolerance of it and overlaps it in
\* retention time; when there are entries within tolerance but none of them
\* overlaps the new chromatogram in time, the new chromatogram is inserted
\* as a distinct entry and no entry is changed.
C19_MergeOnlyOnMassAndTimeOverlap ==
    mg_count > 0 =>
        /\ ~InsertedDistinct(mg_before, mg_chromatograms, mg_new) =>
              \E k \in MassCandidates : overlaps_in_time(mg_before[k], mg_new)
        /\ (/\ MassCandidates # {}
            /\ \A k \in MassCandidates : ~overlaps_in_time(mg_before[k], mg_new)) =>
              InsertedDistinct(mg_before, mg_chromatograms, mg_new)

-----------------------------------------------------------------------------
(* binary_search_with_flag on mass-sorted arrays of chromatograms.         *)

MaxArray == 3

\* 990.0, 1000.0, 1000.0005, 1000.009 and 1005.0
ArrayMasses == {99000000, 100000000, 100000050, 100000900, 100500000}
SearchMasses == {100000000, 100000050}

NoSearch == [index |-> <<>>, matched |-> FALSE]

search_others ==
    <<forest_vars, smoother_vars, graph_vars, join_vars, prune_vars,
      reverse_vars, sweep_vars, binomial_vars, massdb_vars, dispatch_vars,
      merger_vars,
      dijkstra_vars,
      between_vars,
      reader_vars,
      edges_vars,
      cache_vars,
      threaded_vars,
      piped_vars>>

SortedArrays ==
    {[k \in 1..Len(masses) |-> SpanChromatogram(masses[k], <<10, 20>>, 1)] :
        masses \in {s \in UNION {[1..n -> ArrayMasses] : n \in 0..MaxArray} :
                        \A k \in 1..(Len(s) - 1) : s[k] <= s[k + 1]}}

SearchInit ==
    /\ sf_array \in SortedArrays
    /\ sf_mass \in SearchMasses
    /\ sf_result = NoSearch
    /\ sf_pc = "new"

BinarySearchWithFlag ==
    /\ sf_pc = "new"
    /\ sf_result' = binary_search_with_flag(sf_array, sf_mass)
    /\ sf_pc' = "done"
    /\ UNCHANGED <<sf_array, sf_mass>>
    /\ UNCHANGED search_others

\* The (0-based) positions of the elements within error_tolerance of mass
PositionsWithinTolerance(array, mass) ==
    {i \in 0..(Len(array) - 1) : WithinTolerance(PyIndex(array, i).neutral_mass, mass)}

\* C20: on a mass-sorted array binary_search_with_flag reports matched
\* exactly when some element is within error_tolerance of the mass, and the
\* index list it then returns holds exactly the positions of the elements
\* within tolerance: none out of tolerance, none negative, none missing.
C20_IndexListIsExactlyTheMatches ==
    sf_pc = "done" =>
        /\ sf_result.matched <=> PositionsWithinTolerance(sf_array, sf_mass) # {}
        /\ sf_result.matched =>
              Range(sf_result.index) = PositionsWithinTolerance(sf_array, sf_mass)

-----------------------------------------------------------------------------
(* DijkstraPathFinder(graph, start, end, limit).search() on graphs read    *)
(* from a graph file: five nodes, and edge lines between the node pairs of *)
(* EdgeSlots with the orders the file gives them.                          *)

SearchNodes == << <<0, 0>>, <<1, 0>>, <<2, 0>>, <<3, 0>>, <<4, 0>>, <<5, 0>> >>

\* The pairs of node indices an edge line may join
EdgeSlots ==
    << <<0, 1>>, <<0, 2>>, <<0, 3>>, <<1, 3>>, <<2, 3>>, <<3, 4>>, <<0, 5>>, <<4, 5>> >>

\* The order an edge line gives; 0 stands for no line.  The last node has
\* an edge of order 2 to the first node and to the fifth.
EdgeOrders == {0, 1, 3}
FileOrders ==
    {orders \in [1..Len(EdgeSlots) -> EdgeOrders \cup {2}] :
        /\ orders[7] = 2
        /\ orders[8] = 2
        /\ \A j \in 1..6 : orders[j] \in EdgeOrders}

SearchLimits == {5, Infinity}

\* The text of a graph file with these nodes and edge orders
GraphFile(orders) ==
    <<MarkerLine("#COMPOSITIONGRAPH 1.0"), MarkerLine("#NODE")>>
        \o [i \in 1..Len(SearchNodes) |->
               DataLine(<<FormatD(i - 1), serialize(SearchNodes[i]), FormatF(0)>>)]
        \o <<MarkerLine("#EDGE")>>
        \o [k \in 1..Cardinality({j \in 1..Len(EdgeSlots) : orders[j] > 0}) |->
               LET slot == CHOOSE j \in 1..Len(EdgeSlots) :
                               /\ orders[j] > 0
                               /\ Cardinality({i \in 1..j : orders[i] > 0}) = k
               IN  DataLine(<<FormatD(EdgeSlots[slot][1]), FormatD(EdgeSlots[slot][2]),
                              FormatD(orders[slot]), FormatF(ScoreOne)>>)]

dijkstra_others ==
    <<forest_vars, smoother_vars, graph_vars, join_vars, prune_vars,
      reverse_vars, sweep_vars, binomial_vars, massdb_vars, dispatch_vars,
      merger_vars, search_vars,
      between_vars,
      reader_vars,
      edges_vars,
      cache_vars,
      threaded_vars,
      piped_vars>>

DijkstraInit ==
    /\ \E orders \in FileOrders : dj_graph = GraphReader(GraphFile(orders))
    /\ dj_start \in {SearchNodes[1], SearchNodes[2]}
    /\ dj_end \in {SearchNodes[4], SearchNodes[5]}
    /\ dj_limit \in SearchLimits
    /\ dj_result = 0
    /\ dj_pc = "new"
    /\ dj_bridged = create_nodes(<<>>)

\* DijkstraPathFinder(graph, start, end, limit).search()
Search ==
    /\ dj_pc = "new"
    /\ dj_result' \in search(dj_graph, dj_start, dj_end, dj_limit)
    /\ dj_pc' = "done"
    /\ UNCHANGED <<dj_graph, dj_start, dj_end, dj_limit, dj_bridged>>
    /\ UNCHANGED dijkstra_others

\* graph.remove_node(node, bridge=True, limit): the last node is removed
RemoveNodeBridged ==
    /\ dj_pc = "new"
    /\ dj_bridged' \in remove_node(dj_graph, SearchNodes[6], TRUE, dj_limit)
    /\ dj_pc' = "removed"
    /\ UNCHANGED <<dj_graph, dj_start, dj_end, dj_limit, dj_result>>
    /\ UNCHANGED dijkstra_others

\* The graph without the node x and its edges
Remaining(G, x) == CHOOSE H \in remove_node(G, x, FALSE, 0) : TRUE

\* C21: after remove_node(x, bridge=True, limit), for every two former
\* neighbours a, b of x that had no edge between them, there is a bridge
\* edge a-b exactly when order(a,x) + order(x,b) < limit; its order is the
\* lesser of that sum and the length of the shortest a-b path that remains
\* in the graph; and no bridge edge has an order of limit or more.
C21_BridgeOrderIsMinimum ==
    dj_pc = "removed" =>
        LET x == SearchNodes[6]
        IN  \A a, b \in Neighbours(dj_graph, x) :
                (a # b /\ OrderBetween(dj_graph, a, b) = 0) =>
                    LET through == OrderBetween(dj_graph, a, x) + OrderBetween(dj_graph, x, b)
                        bridge == OrderBetween(dj_bridged, a, b)
                    IN  /\ bridge > 0 <=> through < dj_limit
                        /\ bridge > 0 =>
                              /\ bridge = Min2(through,
                                               ShortestPath(Remaining(dj_graph, x), a, b))
                              /\ bridge < dj_limit

\* C22: search returns the length of a shortest path from start to end, the
\* least sum of edge orders over the paths between them, whenever that
\* length is below limit, and infinity when end cannot be reached from
\* start.
C22_SearchReturnsShortestPath ==
    dj_pc = "done" =>
        LET shortest == ShortestPath(dj_graph, dj_start, dj_end)
        IN  /\ shortest < dj_limit => dj_result = shortest
            /\ shortest = Infinity => dj_result = Infinity

-----------------------------------------------------------------------------
(* ChromatogramFilter.mass_between (chromatogram_tree/index.py).           *)

\* 980.0, 1000.0, 1000.009, 1005.0 and 1010.0
BetweenMasses == {98000000, 100000000, 100000900, 100500000, 101000000}

NoBetween == [raised |-> "none", out |-> <<>>]

\* self.chromatograms[i] for i >= 0 raises IndexError from len on
InRange(collection, i) == i < Len(collection)

\* self[low_index:high_index]
PySlice(collection, lo, hi) ==
    LET stop == IF hi > Len(collection) THEN Len(collection) ELSE hi
    IN  IF lo >= stop THEN <<>> ELSE SubSeq(collection, lo + 1, stop)

mass_between(collection, low, high) ==
    LET low_found == FilterSearchLoop(collection, low, 0, Len(collection)).index
        high_found == FilterSearchLoop(collection, high, 0, Len(collection)).index + 2
    IN  IF ~InRange(collection, low_found) \/ ~InRange(collection, high_found)
        THEN [raised |-> "IndexError", out |-> <<>>]
        ELSE LET low_index == IF collection[low_found + 1].neutral_mass < low
                              THEN low_found + 1 ELSE low_found
                 high_index == IF collection[high_found + 1].neutral_mass > high
                               THEN high_found - 1 ELSE high_found
             IN  [raised |-> "none", out |-> PySlice(collection, low_index, high_index)]

BetweenInit ==
    /\ mb_chromatograms \in {ChromatogramFilter(array) : array \in SortedArrays}
    /\ mb_low \in BetweenMasses
    /\ mb_high \in {high \in BetweenMasses : mb_low <= high}
    /\ mb_result = NoBetween
    /\ mb_pc = "new"

MassBetween ==
    /\ mb_pc = "new"
    /\ mb_result' = mass_between(mb_chromatograms, mb_low, mb_high)
    /\ mb_pc' = "done"
    /\ UNCHANGED <<mb_chromatograms, mb_low, mb_high>>
    /\ UNCHANGED <<forest_vars, smoother_vars, graph_vars, join_vars, prune_vars,
                   reverse_vars, sweep_vars, binomial_vars, massdb_vars,
                   dispatch_vars, merger_vars, search_vars, dijkstra_vars, reader_vars, edges_vars, cache_vars, threaded_vars, piped_vars>>

\* C23: on a mass-sorted collection mass_between(low, high) returns exactly
\* the chromatograms with low <= neutral_mass <= high, in their stored
\* order, and raises nothing: not on an empty collection, not on one of one
\* or two chromatograms, not when the range reaches the highest stored
\* mass, not when no chromatogram lies in the range.
C23_MassBetweenExact ==
    mb_pc = "done" =>
        /\ mb_result.raised = "none"
        /\ mb_result.out =
              SelectSeq(mb_chromatograms,
                        LAMBDA c : mb_low <= c.neutral_mass /\ c.neutral_mass <= mb_high)

-----------------------------------------------------------------------------
(* GraphReader on malformed graph files: the text GraphWriter writes for a *)
(* graph, with one defect put into it.                                     *)

\* The text written for the graph of these compositions
WrittenFile(compositions, degree, fn) ==
    LET G == create_edges(create_nodes(compositions), degree, fn)
    IN  handle_graph(G, CHOOSE p \in Perms(EdgesOf(G.edges)) : TRUE)

IsNodeLine(lines, i) ==
    /\ lines[i].marker = ""
    /\ \E j \in 1..(i - 1) : lines[j].marker = "#NODE"
    /\ \A j \in 1..(i - 1) : lines[j].marker # "#EDGE"

IsEdgeLine(lines, i) ==
    /\ lines[i].marker = ""
    /\ \E j \in 1..(i - 1) : lines[j].marker = "#EDGE"

NodeLines(lines) == {i \in 1..Len(lines) : IsNodeLine(lines, i)}

\* The files with one defect of the kind named
Defective(lines, defect) ==
    CASE defect = "no section marker" ->
            {Without(lines, i) : i \in {j \in 1..Len(lines) :
                                           lines[j].marker \in {"#NODE", "#EDGE"}}}
      [] defect = "a field too few" ->
            {[lines EXCEPT ![i].fields = SubSeq(@, 1, IF IsNodeLine(lines, i) THEN 1 ELSE 3)] :
                i \in {j \in 1..Len(lines) : lines[j].marker = ""}}
      [] defect = "a field too many" ->
            {[lines EXCEPT ![i].fields = Append(@, <<0>>)] :
                i \in {j \in 1..Len(lines) : lines[j].marker = ""}}
      [] defect = "no such node" ->
            {[lines EXCEPT ![i].fields[2] = FormatD(Cardinality(NodeLines(lines)))] :
                i \in {j \in 1..Len(lines) : IsEdgeLine(lines, j)}}

Defects == {"no section marker", "a field too few", "a field too many", "no such node"}

ReaderInit ==
    /\ rd_defect \in Defects
    /\ \E compositions \in GraphInputs, degree \in Degrees, fn \in DistanceFns :
          rd_file \in Defective(WrittenFile(compositions, degree, fn), rd_defect)
    /\ rd_network = create_nodes(<<>>)
    /\ rd_pc = "new"

\* GraphReader.read(file_obj)
Read ==
    /\ rd_pc = "new"
    /\ rd_network' = GraphReader(rd_file)
    /\ rd_pc' = "read"
    /\ UNCHANGED <<rd_file, rd_defect>>
    /\ UNCHANGED <<forest_vars, smoother_vars, graph_vars, join_vars, prune_vars,
                   reverse_vars, sweep_vars, binomial_vars, massdb_vars,
                   dispatch_vars, merger_vars, search_vars, dijkstra_vars,
                   between_vars, edges_vars, cache_vars, threaded_vars, piped_vars>>

\* C24: GraphReader gives every malformed graph file back to the caller as
\* an error: a file without the #NODE or the #EDGE marker, a node or edge
\* line with a wrong number of fields, an edge line naming a node index
\* that does not exist; none yields an empty or partial graph silently.
C24_MalformedFileIsAnError ==
    rd_pc = "read" => rd_network.error # "none"

-----------------------------------------------------------------------------
(* The edge sets of a CompositionGraph under create_edges, remove_node     *)
(* with bridging and clone, in any order.                                  *)

MaxEdgeCalls == 3

edges_others ==
    <<forest_vars, smoother_vars, graph_vars, join_vars, prune_vars,
      reverse_vars, sweep_vars, binomial_vars, massdb_vars, dispatch_vars,
      merger_vars, search_vars, dijkstra_vars, between_vars, reader_vars,
      cache_vars,
      threaded_vars,
      piped_vars>>

EdgesInit ==
    /\ \E compositions \in GraphInputs, degree \in Degrees, fn \in DistanceFns :
          eg_graph = create_edges(create_nodes(compositions), degree, fn)
    /\ eg_history = <<"create_edges">>

\* graph.create_edges(degree, distance_fn), called again
CreateEdges ==
    /\ Len(eg_history) < MaxEdgeCalls
    /\ \E degree \in Degrees, fn \in DistanceFns :
          eg_graph' = create_edges(eg_graph, degree, fn)
    /\ eg_history' = Append(eg_history, "create_edges")
    /\ UNCHANGED edges_others

\* graph.remove_node(node, bridge=True, limit)
RemoveNodeWithBridging ==
    /\ Len(eg_history) < MaxEdgeCalls
    /\ \E i \in 1..Len(eg_graph.nodes), limit \in Limits :
          eg_graph' \in remove_node(eg_graph, eg_graph.nodes[i].composition, TRUE, limit)
    /\ eg_history' = Append(eg_history, "remove_node")
    /\ UNCHANGED edges_others

\* graph = graph.clone()
CloneGraph ==
    /\ Len(eg_history) < MaxEdgeCalls
    /\ eg_graph' = CompositionGraph_clone(eg_graph)
    /\ eg_history' = Append(eg_history, "clone")
    /\ UNCHANGED edges_others

\* C25: after any sequence of create_edges, remove_node with bridging and
\* clone, the graph's edge set and the nodes' edge sets hold the same edges
\* (each edge of graph.edges is in the edge set of both its endpoints, and
\* each edge of a node's set is in graph.edges), both endpoints of every
\* edge are nodes of the graph, and node1.index < node2.index for every
\* edge, so that edge_to finds it from either endpoint.
C25_EdgeSetsAgree ==
    /\ eg_graph.error = "none"
    /\ EdgesAgree(eg_graph)
    /\ \A edge \in EdgesOf(eg_graph.edges) :
          /\ {edge.node1, edge.node2} \subseteq Compositions(eg_graph)
          /\ index(eg_graph, edge.node1) < index(eg_graph, edge.node2)
          /\ HasEdgeTo(eg_graph, edge.node1, edge.node2)
          /\ HasEdgeTo(eg_graph, edge.node2, edge.node1)

C25_Witness ==
    /\ eg_history = <<"create_edges", "remove_node", "clone">>
    /\ Len(eg_graph.nodes) = 3
    /\ <<<<0, 0>>, <<4, 0>>>> \in DOMAIN eg_graph.edges
    /\ eg_graph.edges[<<<<0, 0>>, <<4, 0>>>>].order = 4

-----------------------------------------------------------------------------
(* ScanCacheHandlerBase and DatabaseScanCacheHandler (scan_cache.py).  A   *)
(* scan is a record of its id and ms_level.  The handler's record holds    *)
(* its fields, the bunches serializer.save was given (saved) and the       *)
(* number of session.commit calls.                                         *)

MaxScans == 4
commit_interval == 1000

NoScan == [id |-> 0, ms_level |-> 0]

NoHandler ==
    [current_precursor |-> NoScan, current_products |-> <<>>, commit_counter |-> 0,
     saved |-> <<>>, session_commits |-> 0]

ScanBunch(precursor, products) == [precursor |-> precursor, products |-> products]

reset(self) == [self EXCEPT !.current_precursor = NoScan, !.current_products = <<>>]

RECURSIVE ScanCacheHandlerBase_save(_)
RECURSIVE DatabaseScanCacheHandler_save_bunch(_, _, _)
RECURSIVE DatabaseScanCacheHandler_commit(_)

\* ScanCacheHandlerBase.save
ScanCacheHandlerBase_save(self) ==
    IF self.current_precursor # NoScan
    THEN reset(DatabaseScanCacheHandler_save_bunch(
                   self, self.current_precursor, self.current_products))
    ELSE self

\* DatabaseScanCacheHandler.save_bunch
DatabaseScanCacheHandler_save_bunch(self, precursor, products) ==
    LET saved == [self EXCEPT !.saved = Append(@, ScanBunch(precursor, products)),
                              !.commit_counter = @ + 1]
    IN  IF saved.commit_counter % commit_interval = 0
        THEN DatabaseScanCacheHandler_commit(saved)
        ELSE saved

\* DatabaseScanCacheHandler.commit
DatabaseScanCacheHandler_commit(self) ==
    [ScanCacheHandlerBase_save(self) EXCEPT !.session_commits = @ + 1]

\* ScanCacheHandlerBase.accumulate
accumulate(self, scan) ==
    IF self.current_precursor = NoScan
    THEN [self EXCEPT !.current_precursor = scan]
    ELSE IF scan.ms_level = self.current_precursor.ms_level
    THEN [ScanCacheHandlerBase_save(self) EXCEPT !.current_precursor = scan]
    ELSE [self EXCEPT !.current_products = Append(@, scan)]

cache_others ==
    <<forest_vars, smoother_vars, graph_vars, join_vars, prune_vars,
      reverse_vars, sweep_vars, binomial_vars, massdb_vars, dispatch_vars,
      merger_vars, search_vars, dijkstra_vars, between_vars, reader_vars,
      edges_vars,
      threaded_vars,
      piped_vars>>

\* A handler that has saved this many bunches before; saved holds what the
\* serializer is given from here on
CacheInit ==
    /\ \E saved_before \in {0, commit_interval - 2} :
          ch_handler = [NoHandler EXCEPT !.commit_counter = saved_before]
    /\ ch_accumulated = <<>>
    /\ ch_pc = "open"

Accumulate ==
    /\ ch_pc = "open"
    /\ Len(ch_accumulated) < MaxScans
    /\ \E ms_level \in {1, 2} :
          LET scan == [id |-> Len(ch_accumulated) + 1, ms_level |-> ms_level]
          IN  /\ ch_handler' = accumulate(ch_handler, scan)
              /\ ch_accumulated' = Append(ch_accumulated, scan)
    /\ UNCHANGED ch_pc
    /\ UNCHANGED cache_others

Commit ==
    /\ ch_pc = "open"
    /\ ch_handler' = DatabaseScanCacheHandler_commit(ch_handler)
    /\ ch_pc' = "committed"
    /\ UNCHANGED ch_accumulated
    /\ UNCHANGED cache_others

\* The bunches of a sequence of scans: a scan opens a bunch when it is the
\* first or has the ms_level of the scan that opened the bunch before it
RECURSIVE Bunches(_, _, _)
Bunches(scans, k, done) ==
    IF k > Len(scans) THEN done
    ELSE IF done = <<>> \/ scans[k].ms_level = done[Len(done)].precursor.ms_level
    THEN Bunches(scans, k + 1, Append(done, ScanBunch(scans[k], <<>>)))
    ELSE Bunches(scans, k + 1,
                 [done EXCEPT ![Len(done)].products = Append(@, scans[k])])

\* C26: after accumulate calls followed by commit, every accumulated
\* precursor scan was given to serializer.save exactly once, in a bunch of
\* exactly the product scans accumulated between it and the next precursor;
\* also when the bunch counter reaches the commit interval in save_bunch.
C26_EachBunchSavedOnce ==
    ch_pc = "committed" => ch_handler.saved = Bunches(ch_accumulated, 1, <<>>)

-----------------------------------------------------------------------------
(* ThreadedDatabaseScanCacheHandler (scan_cache.py): the calling thread    *)
(* and the worker thread of _worker_loop.  The queue is a sequence of      *)
(* bunches and DONE marks.  A queue.get that times out leaves the state as *)
(* it is and is no step of the model.                                      *)

MaxCalls == 4

\* DONE = b"---NO-MORE---": the mark that is no bunch
DONE == [precursor |-> [id |-> -1, ms_level |-> 0], products |-> <<>>]

NoThreaded == [current_precursor |-> NoScan, current_products |-> <<>>, queue |-> <<>>]

threaded_others ==
    <<forest_vars, smoother_vars, graph_vars, join_vars, prune_vars,
      reverse_vars, sweep_vars, binomial_vars, massdb_vars, dispatch_vars,
      merger_vars, search_vars, dijkstra_vars, between_vars, reader_vars,
      edges_vars, cache_vars,
      piped_vars>>

\* ThreadedDatabaseScanCacheHandler.save_bunch
ThreadedDatabaseScanCacheHandler_save_bunch(self, precursor, products) ==
    [self EXCEPT !.queue = Append(@, ScanBunch(precursor, products))]

\* ScanCacheHandlerBase.save, on the threaded handler
Threaded_save(self) ==
    IF self.current_precursor # NoScan
    THEN reset(ThreadedDatabaseScanCacheHandler_save_bunch(
                   self, self.current_precursor, self.current_products))
    ELSE self

\* ScanCacheHandlerBase.accumulate, on the threaded handler
Threaded_accumulate(self, scan) ==
    IF self.current_precursor = NoScan
    THEN [self EXCEPT !.current_precursor = scan]
    ELSE IF scan.ms_level = self.current_precursor.ms_level
    THEN [Threaded_save(self) EXCEPT !.current_precursor = scan]
    ELSE [self EXCEPT !.current_products = Append(@, scan)]

\* ThreadedDatabaseScanCacheHandler.__init__: the worker thread is started
ThreadedInit ==
    /\ th_handler = NoThreaded
    /\ th_written = <<>>
    /\ th_worker = "running"
    /\ th_main = "ready"
    /\ th_calls = <<>>
    /\ th_complete = <<>>

ThreadedAccumulate ==
    /\ th_main = "ready"
    /\ Len(th_calls) < MaxCalls
    /\ \E ms_level \in {1, 2} :
          th_handler' = Threaded_accumulate(
                            th_handler, [id |-> Len(th_calls) + 1, ms_level |-> ms_level])
    /\ th_calls' = Append(th_calls, "accumulate")
    /\ UNCHANGED <<th_written, th_worker, th_main, th_complete>>
    /\ UNCHANGED threaded_others

\* commit: save(), then _end_thread up to worker_thread.join()
ThreadedCommit ==
    /\ th_main = "ready"
    /\ Len(th_calls) < MaxCalls
    /\ th_handler' = [Threaded_save(th_handler) EXCEPT !.queue = Append(@, DONE)]
    /\ th_main' = "join"
    /\ th_calls' = Append(th_calls, "commit")
    /\ UNCHANGED <<th_written, th_worker, th_complete>>
    /\ UNCHANGED threaded_others

\* _end_thread: worker_thread.join() returns when the thread has ended
ThreadedJoin ==
    /\ th_main = "join"
    /\ th_worker = "ended"
    /\ th_main' = "ready"
    /\ UNCHANGED <<th_handler, th_written, th_worker, th_calls, th_complete>>
    /\ UNCHANGED threaded_others

\* DatabaseScanCacheHandler.complete: save(), serializer.complete(),
\* index_controller.create()
ThreadedComplete ==
    /\ th_main = "ready"
    /\ Len(th_calls) < MaxCalls
    /\ th_handler' = Threaded_save(th_handler)
    /\ th_complete' = Append(th_complete, SelectSeq(th_handler'.queue, LAMBDA b : b # DONE))
    /\ th_calls' = Append(th_calls, "complete")
    /\ UNCHANGED <<th_written, th_worker, th_main>>
    /\ UNCHANGED threaded_others

\* _worker_loop: one queue.get that returns, and what is done with it
WorkerLoop ==
    /\ th_worker = "running"
    /\ th_handler.queue # <<>>
    /\ LET next_bunch == Head(th_handler.queue)
       IN  IF next_bunch = DONE
           THEN th_worker' = "ended" /\ UNCHANGED th_written
           ELSE th_written' = Append(th_written, next_bunch) /\ UNCHANGED th_worker
    /\ th_handler' = [th_handler EXCEPT !.queue = Tail(@)]
    /\ UNCHANGED <<th_main, th_calls, th_complete>>
    /\ UNCHANGED threaded_others

\* C29: every bunch handed to save_bunch has been written by the worker
\* thread through serializer.save when complete() runs
\* serializer.complete() and recreates the indices, and no bunch stays on
\* the queue unconsumed after the last commit() or complete(): for commit
\* then complete, for complete then commit, and when accumulate is called
\* again after a commit().
C29_WrittenBeforeComplete ==
    /\ \A k \in 1..Len(th_complete) : th_complete[k] = <<>>
    /\ (/\ th_main = "ready"
        /\ th_worker = "ended"
        /\ th_calls # <<>>
        /\ th_calls[Len(th_calls)] \in {"commit", "complete"}) =>
            \A k \in 1..Len(th_handler.queue) : th_handler.queue[k] = DONE

-----------------------------------------------------------------------------
(* piped_deconvolve.py: ScanIDYieldingProcess, ScanTransformingProcess,    *)
(* ScanOrderManager and ScanGenerator.make_iterator.  A scan is its index  *)
(* (which is its id as well) and whether its arrays are empty.  None is    *)
(* the empty sequence and a value x is <<x>>.  A queue.get that times out  *)
(* and changes nothing is no step of the model; the queues of 100 places   *)
(* never fill at the sizes of the model.                                   *)

MaxBunches == 3
MaxProducts == 1
MaxScanCount == 4
MaxHelpers == 1

SCAN_STATUS_GOOD == "good"
SCAN_STATUS_SKIP == "skip"

NoArgs == [max_scans |-> <<>>, end_scan |-> <<>>]

NoManager ==
    [last_index |-> <<>>, waiting |-> {}, started_helpers |-> FALSE, has_more |-> FALSE]

piped_others ==
    <<forest_vars, smoother_vars, graph_vars, join_vars, prune_vars,
      reverse_vars, sweep_vars, binomial_vars, massdb_vars, dispatch_vars,
      merger_vars, search_vars, dijkstra_vars, between_vars, reader_vars,
      edges_vars, cache_vars, threaded_vars>>

RECURSIVE SeqSum(_)
SeqSum(s) == IF s = <<>> THEN 0 ELSE Head(s) + SeqSum(Tail(s))

\* the sizes of the bunches of a file: a precursor and its products
BunchSizes ==
    {sz \in UNION {[1..n -> 1..(1 + MaxProducts)] : n \in 0..MaxBunches} :
        SeqSum(sz) <= MaxScanCount}

\* the bunches MzMLLoader gives for a file of these sizes, the scans
\* indexed in file order
LoaderBunches(sz, empty) ==
    [k \in 1..Len(sz) |->
        LET first == SeqSum(SubSeq(sz, 1, k - 1))
            scan(i) == [index |-> i, empty |-> i \in empty]
        IN  [precursor |-> scan(first),
             products |-> [j \in 1..(sz[k] - 1) |-> scan(first + j)]]]

MaxScansArgs == {<<>>, <<0>>, <<2>>}
EndScanArgs == {<<>>, <<1>>}

\* the primary process is worker 0, the helpers are 1..MaxHelpers
TransformingProcesses == 0..MaxHelpers

\* ScanGenerator.make_iterator: the queues, done_event, the picker and
\* the primary process started, the helpers made and not started
PipedInit ==
    /\ \E sz \in BunchSizes : \E empty \in SUBSET (0..(SeqSum(sz) - 1)) :
          pd_loader = LoaderBunches(sz, empty)
    /\ \E max_scans \in MaxScansArgs, end_scan \in EndScanArgs :
          pd_args = [max_scans |-> max_scans, end_scan |-> end_scan]
    /\ pd_picker = [pc |-> "running", count |-> 0]
    /\ pd_input = <<>>
    /\ pd_event = FALSE
    /\ pd_workers = [w \in TransformingProcesses |->
                        [pc |-> IF w = 0 THEN "running" ELSE "unstarted", products |-> <<>>]]
    /\ pd_output = <<>>
    /\ pd_manager = [NoManager EXCEPT !.has_more = TRUE]
    /\ pd_yielded = <<>>

\* ScanIDYieldingProcess.run: one test of the while condition and what
\* follows it.  next(self.loader) on the exhausted loader raises
\* StopIteration, which run does not catch.
PickerRun ==
    /\ pd_picker.pc = "running"
    /\ IF pd_args.max_scans = <<>> \/ pd_picker.count < pd_args.max_scans[1]
       THEN IF pd_loader = <<>>
            THEN /\ pd_picker' = [pd_picker EXCEPT !.pc = "StopIteration"]
                 /\ UNCHANGED <<pd_loader, pd_input, pd_event>>
            ELSE IF <<Head(pd_loader).precursor.index>> = pd_args.end_scan
            THEN /\ pd_picker' = [pd_picker EXCEPT !.pc = "done"]
                 /\ pd_event' = TRUE
                 /\ pd_loader' = Tail(pd_loader)
                 /\ UNCHANGED pd_input
            ELSE /\ pd_input' = Append(pd_input, Head(pd_loader))
                 /\ pd_picker' = [pd_picker EXCEPT !.count = @ + 1]
                 /\ pd_loader' = Tail(pd_loader)
                 /\ UNCHANGED pd_event
       ELSE /\ pd_picker' = [pd_picker EXCEPT !.pc = "done"]
            /\ pd_event' = TRUE
            /\ UNCHANGED <<pd_loader, pd_input>>
    /\ UNCHANGED <<pd_args, pd_workers, pd_output, pd_manager, pd_yielded>>
    /\ UNCHANGED piped_others

\* skip_scan and send_scan: what is put on the output queue for a scan
Output(scan) ==
    [item |-> IF scan.empty THEN SCAN_STATUS_SKIP ELSE SCAN_STATUS_GOOD, index |-> scan.index]

\* ScanTransformingProcess.run: input_queue.get returns a bunch; the
\* precursor is sent or skipped, and after a skipped empty precursor the
\* loop continues with the next get
TransformGet ==
    \E w \in TransformingProcesses :
        /\ pd_workers[w].pc = "running"
        /\ pd_workers[w].products = <<>>
        /\ pd_input # <<>>
        /\ LET scan == Head(pd_input).precursor
           IN  /\ pd_output' = Append(pd_output, Output(scan))
               /\ pd_workers' = [pd_workers EXCEPT ![w].products =
                                    IF scan.empty THEN <<>> ELSE Head(pd_input).products]
        /\ pd_input' = Tail(pd_input)
        /\ UNCHANGED <<pd_loader, pd_args, pd_picker, pd_event, pd_manager, pd_yielded>>
        /\ UNCHANGED piped_others

\* ScanTransformingProcess.run: the loop over product_scans, one scan
TransformProduct ==
    \E w \in TransformingProcesses :
        /\ pd_workers[w].pc = "running"
        /\ pd_workers[w].products # <<>>
        /\ pd_output' = Append(pd_output, Output(Head(pd_workers[w].products)))
        /\ pd_workers' = [pd_workers EXCEPT ![w].products = Tail(@)]
        /\ UNCHANGED <<pd_loader, pd_args, pd_picker, pd_input, pd_event, pd_manager, pd_yielded>>
        /\ UNCHANGED piped_others

\* ScanTransformingProcess.run: input_queue.get times out with
\* no_more_event set; the loop is left and _work_complete is set
TransformTimeout ==
    \E w \in TransformingProcesses :
        /\ pd_workers[w].pc = "running"
        /\ pd_workers[w].products = <<>>
        /\ pd_input = <<>>
        /\ pd_event
        /\ pd_workers' = [pd_workers EXCEPT ![w].pc = "done"]
        /\ UNCHANGED <<pd_loader, pd_args, pd_picker, pd_input, pd_event, pd_output, pd_manager, pd_yielded>>
        /\ UNCHANGED piped_others

\* ScanOrderManager.all_workers_done
all_workers_done(event, workers) ==
    IF event
    THEN IF workers[0].pc = "done"
         THEN \A helper \in 1..MaxHelpers : workers[helper].pc = "done"
         ELSE FALSE
    ELSE FALSE

\* ScanOrderManager.consume: [self, queue, got]
consume(self, queue) ==
    IF queue # <<>>
    THEN [self |-> [self EXCEPT !.waiting =
                       {e \in @ : e.index # Head(queue).index} \cup {Head(queue)}],
          queue |-> Tail(queue), got |-> TRUE]
    ELSE [self |-> self, queue |-> queue, got |-> FALSE]

WaitingKeys(self) == {e.index : e \in self.waiting}

Waiting_pop(self, ix) == [self EXCEPT !.waiting = {e \in @ : e.index # ix}]

Waiting_get(self, ix) == CHOOSE e \in self.waiting : e.index = ix

\* ScanOrderManager.__iter__: one pass of the while loop, up to and with
\* the yield and what follows it: [self, queue, out]
ScanOrderManager_iter(self, queue, workers_done) ==
    LET c == consume(self, queue)
        s == c.self
    IN  IF s.last_index = <<>>
        THEN IF WaitingKeys(s) # {}
             THEN LET first_key == SetMin(WaitingKeys(s))
                      scan == Waiting_get(s, first_key)
                  IN  IF scan.item = SCAN_STATUS_SKIP
                      THEN [self |-> Waiting_pop(s, first_key), queue |-> c.queue, out |-> <<>>]
                      ELSE [self |-> [Waiting_pop(s, first_key) EXCEPT !.last_index = <<scan.index>>,
                                                                 !.started_helpers = TRUE],
                            queue |-> c.queue, out |-> <<scan.index>>]
             ELSE [self |-> s, queue |-> c.queue, out |-> <<>>]
        ELSE IF s.last_index[1] + 1 \in WaitingKeys(s)
        THEN LET scan == Waiting_get(s, s.last_index[1] + 1)
                 popped == Waiting_pop(s, s.last_index[1] + 1)
             IN  IF scan.item = SCAN_STATUS_SKIP
                 THEN [self |-> [popped EXCEPT !.last_index = <<@[1] + 1>>],
                       queue |-> c.queue, out |-> <<>>]
                 ELSE [self |-> [popped EXCEPT !.last_index = <<scan.index>>],
                       queue |-> c.queue, out |-> <<scan.index>>]
        ELSE IF s.waiting = {}
        THEN IF workers_done
             THEN LET has_something == consume(s, c.queue)
                  IN  IF has_something.got
                      THEN [self |-> has_something.self, queue |-> has_something.queue,
                            out |-> <<>>]
                      ELSE [self |-> [s EXCEPT !.has_more = FALSE], queue |-> c.queue,
                            out |-> <<>>]
             ELSE [self |-> s, queue |-> c.queue, out |-> <<>>]
        ELSE [self |-> s, queue |-> c.queue, out |-> <<>>]

\* ScanOrderManager.start_helper_producers
start_helper_producers(workers) ==
    [w \in DOMAIN workers |->
        IF w # 0 /\ workers[w].pc = "unstarted"
        THEN [workers[w] EXCEPT !.pc = "running"]
        ELSE workers[w]]

\* the for loop of make_iterator asks the generator of __iter__ to go on
OrderManagerIterate ==
    /\ pd_manager.has_more
    /\ LET r == ScanOrderManager_iter(pd_manager, pd_output,
                                      all_workers_done(pd_event, pd_workers))
       IN  /\ pd_manager' = r.self
           /\ pd_output' = r.queue
           /\ pd_yielded' = pd_yielded \o r.out
           /\ pd_workers' = IF r.self.started_helpers /\ ~pd_manager.started_helpers
                            THEN start_helper_producers(pd_workers)
                            ELSE pd_workers
    /\ UNCHANGED <<pd_loader, pd_args, pd_picker, pd_input, pd_event>>
    /\ UNCHANGED piped_others

\* a good scan of this index is on the output queue or in waiting
PutOnQueue(ix) ==
    \/ \E k \in 1..Len(pd_output) :
          pd_output[k].index = ix /\ pd_output[k].item = SCAN_STATUS_GOOD
    \/ \E e \in pd_manager.waiting : e.index = ix /\ e.item = SCAN_STATUS_GOOD

\* C27: ScanOrderManager yields scans in strictly increasing index order,
\* and every scan that was put on the output queue and not skipped is
\* yielded, once, in whatever order the processes put their results; for a
\* skipped index no scan is yielded.
C27_YieldsInOrderOnce ==
    /\ [](\A k \in 1..(Len(pd_yielded) - 1) : pd_yielded[k] < pd_yielded[k + 1])
    /\ \A ix \in 0..MaxScanCount :
          PutOnQueue(ix) ~> (ix \in Range(pd_yielded))

\* C28: iteration over ScanGenerator ends: when the picker has no more
\* scans to hand out (loader exhausted, max_scans reached, end_scan met)
\* done_event is set, every ScanTransformingProcess leaves its loop and
\* __iter__ of ScanOrderManager ends; also with max_scans and end_scan not
\* given, with every scan skipped and with no scan produced.
C28_IterationTerminates == <>(~pd_manager.has_more)

-----------------------------------------------------------------------------
(* Specifications: one per subsystem; the other subsystems stay idle.      *)

ForestIdle ==
    /\ forest0 = <<>>
    /\ chromatograms = <<>>
    /\ count = 0
    /\ handled = {}
    /\ last_peak = NoPeak

SmootherIdle ==
    /\ sm_input = <<>>
    /\ sm_output = <<>>
    /\ sm_pc = "idle"

GraphIdle ==
    /\ graph = create_nodes(<<>>)
    /\ network = create_nodes(<<>>)
    /\ file_obj = <<>>
    /\ graph_pc = "idle"
    /\ removed = 0
    /\ scored = 0
    /\ last_call = NoCall

JoinIdle ==
    /\ jm_chromatograms = <<>>
    /\ jm_adducts = <<>>
    /\ jm_result = NoSearch
    /\ jm_pc = "idle"

PruneIdle ==
    /\ pr_solutions = <<>>
    /\ pr_result = NoPruned
    /\ pr_pc = "idle"

ReverseIdle ==
    /\ rv_chromatograms = <<>>
    /\ rv_adducts = <<>>
    /\ rv_database = <<>>
    /\ rv_result = NoReversed
    /\ rv_pc = "idle"

SweepIdle ==
    /\ gm_heap = <<>>
    /\ gm_failing = {}
    /\ gm_result = NoSweep
    /\ gm_pc = "idle"

BinomialIdle ==
    /\ bs_n_theoretical = 0
    /\ bs_matches = 0
    /\ bs_above = <<>>
    /\ bs_ratio = 0
    /\ bs_score = NoScore
    /\ bs_pc = "idle"

MassdbIdle ==
    /\ md_structures = <<>>
    /\ md_query = NoQuery
    /\ md_result = <<>>
    /\ md_pc = "idle"

DispatchIdle ==
    /\ dp_hit_to_scan = <<>>
    /\ dp_fed = 0
    /\ dp_input_queue = <<>>
    /\ dp_output_queue = <<>>
    /\ dp_done_event = FALSE
    /\ dp_workers = <<>>
    /\ dp_i = 0
    /\ dp_scan_solution_map = <<>>
    /\ dp_pc = "idle"
    /\ dp_stale = 0

MergerIdle ==
    /\ mg_chromatograms = <<>>
    /\ mg_count = 0
    /\ mg_before = <<>>
    /\ mg_new = NoChromatogram

SearchIdle ==
    /\ sf_array = <<>>
    /\ sf_mass = 0
    /\ sf_result = NoSearch
    /\ sf_pc = "idle"

DijkstraIdle ==
    /\ dj_graph = create_nodes(<<>>)
    /\ dj_start = <<>>
    /\ dj_end = <<>>
    /\ dj_limit = 0
    /\ dj_result = 0
    /\ dj_pc = "idle"
    /\ dj_bridged = create_nodes(<<>>)

BetweenIdle ==
    /\ mb_chromatograms = <<>>
    /\ mb_low = 0
    /\ mb_high = 0
    /\ mb_result = NoBetween
    /\ mb_pc = "idle"

ReaderIdle ==
    /\ rd_file = <<>>
    /\ rd_defect = "none"
    /\ rd_network = create_nodes(<<>>)
    /\ rd_pc = "idle"

EdgesIdle ==
    /\ eg_graph = create_nodes(<<>>)
    /\ eg_history = <<>>

CacheIdle ==
    /\ ch_handler = NoHandler
    /\ ch_accumulated = <<>>
    /\ ch_pc = "idle"

ThreadedIdle ==
    /\ th_handler = NoThreaded
    /\ th_written = <<>>
    /\ th_worker = "idle"
    /\ th_main = "idle"
    /\ th_calls = <<>>
    /\ th_complete = <<>>

PipedIdle ==
    /\ pd_loader = <<>>
    /\ pd_args = NoArgs
    /\ pd_picker = [pc |-> "idle", count |-> 0]
    /\ pd_input = <<>>
    /\ pd_event = FALSE
    /\ pd_workers = <<>>
    /\ pd_output = <<>>
    /\ pd_manager = NoManager
    /\ pd_yielded = <<>>

InitForest == ForestInit /\ SmootherIdle /\ GraphIdle /\ JoinIdle /\ PruneIdle /\ ReverseIdle /\ SweepIdle /\ BinomialIdle /\ MassdbIdle /\ DispatchIdle /\ MergerIdle /\ SearchIdle /\ DijkstraIdle /\ BetweenIdle /\ ReaderIdle /\ EdgesIdle /\ CacheIdle /\ ThreadedIdle /\ PipedIdle

ForestNext == HandlePeak

SpecForest == InitForest /\ [][ForestNext]_vars

InitSmoother == SmootherInit /\ ForestIdle /\ GraphIdle /\ JoinIdle /\ PruneIdle /\ ReverseIdle /\ SweepIdle /\ BinomialIdle /\ MassdbIdle /\ DispatchIdle /\ MergerIdle /\ SearchIdle /\ DijkstraIdle /\ BetweenIdle /\ ReaderIdle /\ EdgesIdle /\ CacheIdle /\ ThreadedIdle /\ PipedIdle

SmootherNext == Smooth

SpecSmoother == InitSmoother /\ [][SmootherNext]_vars

InitGraph == GraphInit /\ ForestIdle /\ SmootherIdle /\ JoinIdle /\ PruneIdle /\ ReverseIdle /\ SweepIdle /\ BinomialIdle /\ MassdbIdle /\ DispatchIdle /\ MergerIdle /\ SearchIdle /\ DijkstraIdle /\ BetweenIdle /\ ReaderIdle /\ EdgesIdle /\ CacheIdle /\ ThreadedIdle /\ PipedIdle

GraphNext == AssignScore \/ RemoveNode \/ Dump \/ Load

SpecGraph == InitGraph /\ [][GraphNext]_vars

InitJoin == JoinInit /\ ForestIdle /\ SmootherIdle /\ GraphIdle /\ PruneIdle /\ ReverseIdle /\ SweepIdle /\ BinomialIdle /\ MassdbIdle /\ DispatchIdle /\ MergerIdle /\ SearchIdle /\ DijkstraIdle /\ BetweenIdle /\ ReaderIdle /\ EdgesIdle /\ CacheIdle /\ ThreadedIdle /\ PipedIdle

JoinNext == JoinMassShifted

SpecJoin == InitJoin /\ [][JoinNext]_vars

InitPrune == PruneInit /\ ForestIdle /\ SmootherIdle /\ GraphIdle /\ JoinIdle /\ ReverseIdle /\ SweepIdle /\ BinomialIdle /\ MassdbIdle /\ DispatchIdle /\ MergerIdle /\ SearchIdle /\ DijkstraIdle /\ BetweenIdle /\ ReaderIdle /\ EdgesIdle /\ CacheIdle /\ ThreadedIdle /\ PipedIdle

PruneNext == PruneBadAdductBranches

SpecPrune == InitPrune /\ [][PruneNext]_vars

InitReverse == ReverseInit /\ ForestIdle /\ SmootherIdle /\ GraphIdle /\ JoinIdle /\ PruneIdle /\ SweepIdle /\ BinomialIdle /\ MassdbIdle /\ DispatchIdle /\ MergerIdle /\ SearchIdle /\ DijkstraIdle /\ BetweenIdle /\ ReaderIdle /\ EdgesIdle /\ CacheIdle /\ ThreadedIdle /\ PipedIdle

ReverseNext == ReverseAdductionSearch \/ ReverseAdductSearch

SpecReverse == InitReverse /\ [][ReverseNext]_vars

InitSweep == SweepInit /\ ForestIdle /\ SmootherIdle /\ GraphIdle /\ JoinIdle /\ PruneIdle /\ ReverseIdle /\ BinomialIdle /\ MassdbIdle /\ DispatchIdle /\ MergerIdle /\ SearchIdle /\ DijkstraIdle /\ BetweenIdle /\ ReaderIdle /\ EdgesIdle /\ CacheIdle /\ ThreadedIdle /\ PipedIdle

SweepNext == FindOptimalLambda \/ FindThresholdAndLambda

SpecSweep == InitSweep /\ [][SweepNext]_vars

InitBinomial == BinomialInit /\ ForestIdle /\ SmootherIdle /\ GraphIdle /\ JoinIdle /\ PruneIdle /\ ReverseIdle /\ SweepIdle /\ MassdbIdle /\ DispatchIdle /\ MergerIdle /\ SearchIdle /\ DijkstraIdle /\ BetweenIdle /\ ReaderIdle /\ EdgesIdle /\ CacheIdle /\ ThreadedIdle /\ PipedIdle

BinomialNext == CalculateScore

SpecBinomial == InitBinomial /\ [][BinomialNext]_vars

InitMassdb == MassdbInit /\ ForestIdle /\ SmootherIdle /\ GraphIdle /\ JoinIdle /\ PruneIdle /\ ReverseIdle /\ SweepIdle /\ BinomialIdle /\ DispatchIdle /\ MergerIdle /\ SearchIdle /\ DijkstraIdle /\ BetweenIdle /\ ReaderIdle /\ EdgesIdle /\ CacheIdle /\ ThreadedIdle /\ PipedIdle

MassdbNext == MassDatabaseSearchMass \/ NeutralMassDatabaseSearchMass

SpecMassdb == InitMassdb /\ [][MassdbNext]_vars

InitDispatch == DispatchInit /\ ForestIdle /\ SmootherIdle /\ GraphIdle /\ JoinIdle /\ PruneIdle /\ ReverseIdle /\ SweepIdle /\ BinomialIdle /\ MassdbIdle /\ MergerIdle /\ SearchIdle /\ DijkstraIdle /\ BetweenIdle /\ ReaderIdle /\ EdgesIdle /\ CacheIdle /\ ThreadedIdle /\ PipedIdle

DispatchNext == FeederPut \/ FeederDone \/ WorkerGet \/ WorkerTimeout \/ WorkerCheck \/ WorkerEvaluate \/ ProcessGet \/ ProcessTimeout \/ ProcessCheck

SpecDispatch == InitDispatch /\ [][DispatchNext]_vars

InitMerger == MergerInit /\ ForestIdle /\ SmootherIdle /\ GraphIdle /\ JoinIdle /\ PruneIdle /\ ReverseIdle /\ SweepIdle /\ BinomialIdle /\ MassdbIdle /\ DispatchIdle /\ SearchIdle /\ DijkstraIdle /\ BetweenIdle /\ ReaderIdle /\ EdgesIdle /\ CacheIdle /\ ThreadedIdle /\ PipedIdle

MergerNext == HandleNewChromatogram

SpecMerger == InitMerger /\ [][MergerNext]_vars

InitSearch == SearchInit /\ ForestIdle /\ SmootherIdle /\ GraphIdle /\ JoinIdle /\ PruneIdle /\ ReverseIdle /\ SweepIdle /\ BinomialIdle /\ MassdbIdle /\ DispatchIdle /\ MergerIdle /\ DijkstraIdle /\ BetweenIdle /\ ReaderIdle /\ EdgesIdle /\ CacheIdle /\ ThreadedIdle /\ PipedIdle

SearchNext == BinarySearchWithFlag

SpecSearch == InitSearch /\ [][SearchNext]_vars

InitDijkstra == DijkstraInit /\ ForestIdle /\ SmootherIdle /\ GraphIdle /\ JoinIdle /\ PruneIdle /\ ReverseIdle /\ SweepIdle /\ BinomialIdle /\ MassdbIdle /\ DispatchIdle /\ MergerIdle /\ SearchIdle /\ BetweenIdle /\ ReaderIdle /\ EdgesIdle /\ CacheIdle /\ ThreadedIdle /\ PipedIdle

DijkstraNext == Search \/ RemoveNodeBridged

SpecDijkstra == InitDijkstra /\ [][DijkstraNext]_vars

InitBetween == BetweenInit /\ ForestIdle /\ SmootherIdle /\ GraphIdle /\ JoinIdle /\ PruneIdle /\ ReverseIdle /\ SweepIdle /\ BinomialIdle /\ MassdbIdle /\ DispatchIdle /\ MergerIdle /\ SearchIdle /\ DijkstraIdle /\ ReaderIdle /\ EdgesIdle /\ CacheIdle /\ ThreadedIdle /\ PipedIdle

BetweenNext == MassBetween

SpecBetween == InitBetween /\ [][BetweenNext]_vars

InitReader == ReaderInit /\ ForestIdle /\ SmootherIdle /\ GraphIdle /\ JoinIdle /\ PruneIdle /\ ReverseIdle /\ SweepIdle /\ BinomialIdle /\ MassdbIdle /\ DispatchIdle /\ MergerIdle /\ SearchIdle /\ DijkstraIdle /\ BetweenIdle /\ EdgesIdle /\ CacheIdle /\ ThreadedIdle /\ PipedIdle

ReaderNext == Read

SpecReader == InitReader /\ [][ReaderNext]_vars

InitEdges == EdgesInit /\ ForestIdle /\ SmootherIdle /\ GraphIdle /\ JoinIdle /\ PruneIdle /\ ReverseIdle /\ SweepIdle /\ BinomialIdle /\ MassdbIdle /\ DispatchIdle /\ MergerIdle /\ SearchIdle /\ DijkstraIdle /\ BetweenIdle /\ ReaderIdle /\ CacheIdle /\ ThreadedIdle /\ PipedIdle

EdgesNext == CreateEdges \/ RemoveNodeWithBridging \/ CloneGraph

SpecEdges == InitEdges /\ [][EdgesNext]_vars

InitCache == CacheInit /\ ForestIdle /\ SmootherIdle /\ GraphIdle /\ JoinIdle /\ PruneIdle /\ ReverseIdle /\ SweepIdle /\ BinomialIdle /\ MassdbIdle /\ DispatchIdle /\ MergerIdle /\ SearchIdle /\ DijkstraIdle /\ BetweenIdle /\ ReaderIdle /\ EdgesIdle /\ ThreadedIdle /\ PipedIdle

CacheNext == Accumulate \/ Commit

SpecCache == InitCache /\ [][CacheNext]_vars

InitThreaded == ThreadedInit /\ ForestIdle /\ SmootherIdle /\ GraphIdle /\ JoinIdle /\ PruneIdle /\ ReverseIdle /\ SweepIdle /\ BinomialIdle /\ MassdbIdle /\ DispatchIdle /\ MergerIdle /\ SearchIdle /\ DijkstraIdle /\ BetweenIdle /\ ReaderIdle /\ EdgesIdle /\ CacheIdle /\ PipedIdle

ThreadedNext == ThreadedAccumulate \/ ThreadedCommit \/ ThreadedJoin \/ ThreadedComplete \/ WorkerLoop

SpecThreaded == InitThreaded /\ [][ThreadedNext]_vars

InitPiped == PipedInit /\ ForestIdle /\ SmootherIdle /\ GraphIdle /\ JoinIdle /\ PruneIdle /\ ReverseIdle /\ SweepIdle /\ BinomialIdle /\ MassdbIdle /\ DispatchIdle /\ MergerIdle /\ SearchIdle /\ DijkstraIdle /\ BetweenIdle /\ ReaderIdle /\ EdgesIdle /\ CacheIdle /\ ThreadedIdle

PipedNext == PickerRun \/ TransformGet \/ TransformProduct \/ TransformTimeout \/ OrderManagerIterate

SpecPiped == InitPiped /\ [][PipedNext]_vars

\* the processes and the consuming loop are scheduled by the operating
\* system and each goes on running: weak fairness of every step
PipedFairness ==
    /\ WF_vars(PickerRun)
    /\ WF_vars(TransformGet)
    /\ WF_vars(TransformProduct)
    /\ WF_vars(TransformTimeout)
    /\ WF_vars(OrderManagerIterate)

SpecPipedFair == InitPiped /\ [][PipedNext]_vars /\ PipedFairness

\* the feeder thread, the worker processes and the collection loop each go
\* on running, and a get on a queue that stays empty times out
DispatchFairness ==
    /\ WF_vars(FeederPut)
    /\ WF_vars(FeederDone)
    /\ WF_vars(WorkerGet)
    /\ WF_vars(WorkerTimeout)
    /\ WF_vars(WorkerCheck)
    /\ WF_vars(WorkerEvaluate)
    /\ WF_vars(ProcessGet)
    /\ WF_vars(ProcessTimeout)
    /\ WF_vars(ProcessCheck)

SpecDispatchFair == InitDispatch /\ [][DispatchNext]_vars /\ DispatchFairness

=============================================================================
